---- MODULE Spec2Model ----
(***************************************************************************)
(* tunnel-cli: the forwarding-process registry (FRPClientManager) and the  *)
(* dashboard handlers that drive it (DashboardScreen, EditTunnelPortScreen *)
(* and TunnelApp of simple_tui.py).                                        *)
(*                                                                         *)
(* The handlers are coroutines on one asyncio loop.  A handler runs        *)
(* without interruption up to its next suspending await (an HTTP call of   *)
(* the API client, the binary download, asyncio.sleep); each action below  *)
(* is one such run.  The port probe and stop_tunnel are declared async but *)
(* block (connect_ex, Popen.wait), so they never suspend.                  *)
(*                                                                         *)
(* The initial state is a constructed registry with the dashboard about to *)
(* be mounted.  (TunnelApp.__init__ of simple_tui.py passes an argument    *)
(* that FRPClientManager.__init__ does not take; the handlers are modelled *)
(* as written, on a registry built by FRPClientManager().)                  *)
(*                                                                         *)
(* The Remote API lists two tunnels.  Under Spec t1 has a local_port and   *)
(* t2 has none, and the user refreshes, edits the port of t1 and quits at  *)
(* any time.  Under SpecTwo both tunnels have a local_port and the         *)
(* handlers run one after the other.  Under SpecProbe the local_port of t2 *)
(* lies beyond the range of port numbers.                                  *)
(* SpecSeq, SpecIdem, SpecLive and SpecDel follow the handlers one at a    *)
(* time (SpecDel with the delete of a tunnel).  SpecHost follows           *)
(* download_frpc on each host, SpecCall calls start_tunnel on the registry *)
(* with whole and with incomplete tunnel data, and SpecAuth follows the    *)
(* startup, the login screen and the AuthServer of the browser flow.       *)
(***************************************************************************)
EXTENDS Integers, Sequences, FiniteSets, TLC

\* ---------------------------------------------------------------- bounds
\* Process objects (Popen) that can exist at the same time.
MaxProcs == 4

\* ------------------------------------------------------------- constants
TunnelIds == {"t1", "t2"}
\* The order in which the Remote API lists the tunnels (dict insertion
\* order of tunnel_data).
Order == <<"t1", "t2">>
Ports == {1, 2}
\* local_port absent (None).
NoPort == 0
\* Key absent from the tunnel_data dict.
NoKey == -1
\* The largest port number; connect_ex raises OverflowError for a port
\* outside 0 .. MaxPort.
MaxPort == 65535
\* A local_port beyond the range, as a Remote API that does not validate
\* can list it.
BadPort == MaxPort + 1
Pids == 1 .. MaxProcs
\* "screen": the dashboard's own message pump (on_mount, then the timer
\* callbacks); "user": the handler of the user's current key or button.
TaskIds == {"screen", "user"}
\* The rows of the table the user opens the edit screen on.
EditRows == {"t1"}
NoReports == [t \in TunnelIds |-> << >>]
NoItems == [t \in TunnelIds |-> NoKey]
FreeProc == [tid |-> "-", st |-> "free"]
\* tunnel["subdomain"] of the listed tunnels.
Subdomain == [t \in TunnelIds |-> IF t = "t1" THEN "abc" ELSE "xyz"]
\* The edge server every config file names.
ServerAddr == "tunnel.ovream.com"
ServerPort == 7000
\* A config file that does not exist.
NoFile == << >>
\* platform.system().lower() of the hosts looked at.
Systems == {"darwin", "linux", "windows", "freebsd", "sunos"}
\* platform.machine().lower() of the hosts looked at, letter by letter.
Machines ==
  { << "x", "8", "6", "_", "6", "4" >>,
    << "a", "m", "d", "6", "4" >>,
    << "a", "r", "m", "6", "4" >>,
    << "a", "a", "r", "c", "h", "6", "4" >>,
    << "a", "r", "m", "v", "7", "l" >>,
    << "i", "3", "8", "6" >>,
    << "i", "6", "8", "6" >>,
    << "p", "p", "c", "6", "4", "l", "e" >>,
    << "r", "i", "s", "c", "v", "6", "4" >> }
\* The host of a dashboard whose download is not followed step by step.
NoHost == [system |-> "-", machine |-> << >>]
\* download_frpc not called.
NoArchive == [pc |-> "start", platform |-> << >>, ext |-> "-"]
\* what tunnel_data.get gives for a key that is absent or empty: None or
\* '' for id and subdomain, None or 0 for remote_port; all([...]) takes
\* them alike
NoText == ""
NoNumber == 0
\* the remote_port the Remote API gave each tunnel
RemotePort == [t \in TunnelIds |-> IF t = "t1" THEN 7001 ELSE 7002]
\* the keys start_tunnel reads from tunnel_data
Fields == {"id", "subdomain", "remote_port"}
\* the API keys of the examples, as their characters: two of the form the
\* login screen asks for, one without the tk_ prefix
KeyA == << "t", "k", "_", "a" >>
KeyB == << "t", "k", "_", "b" >>
KeyBare == << "a", "b", "c" >>
\* no key: None, or the empty string
NoApiKey == << >>
Keys == {KeyA, KeyB, KeyBare}
\* what str(uuid.uuid4()) can give, and the session_id of a body without
\* one
SessionIds == {"s1", "s2"}
NoSession == "None"
\* the seconds wait_for_auth waits (120 in handle_browser_auth)
WaitTimeout == 2
\* the callbacks one AuthServer is followed through
MaxCallbacks == 2
\* the config file absent or empty
NoConfig == [api_key |-> NoApiKey, username |-> "None"]
\* AuthServer not constructed, or stopped
NoServer == [up |-> FALSE, session_id |-> NoSession, api_key |-> NoApiKey,
             accepted |-> {}, seen |-> 0,
             last |-> [json |-> FALSE, session_id |-> NoSession,
                       api_key |-> NoApiKey],
             response |-> "-"]
\* a handler of the login screen that is not running
NoLogin == [pc |-> "idle", api_key |-> NoApiKey, result |-> "-", elapsed |-> 0]
\* the handlers of the login screen: the Authenticate button, and the
\* browser flow (button or key B)
LoginIds == {"manual", "browser"}
\* start_tunnel not called.
NoCall == [pc |-> "idle", data |-> [id |-> NoText, subdomain |-> NoText,
                                    remote_port |-> NoNumber],
           port |-> NoPort, pid |-> 0, err |-> "-"]

VARIABLES
  processes,      \* FRPClientManager.processes: tunnel id -> pid, 0 = no key
  procs,          \* the Popen objects: pid -> [tid, st]
  configs,        \* config_dir: tunnel id -> text of <id>.ini, NoFile = no file
  frpcInstalled,  \* the frpc binary exists in bin_dir
  apiPort,        \* Remote API: tunnel id -> local_port (NoPort = absent)
  portOpen,       \* something listens on 127.0.0.1:port
  tunnel_data,    \* DashboardScreen.tunnel_data: tunnel id -> local_port / NoKey
  table,          \* what the tunnels table shows
  hasData,        \* hasattr(self, 'tunnel_data')
  mounted,        \* the dashboard has been mounted
  tasks,          \* the handler coroutines and their locals
  timerOn,        \* set_interval(30, periodic_sync) has been called
  app,            \* "running", "closing" (on_shutdown awaits), "exited"
  overlap,        \* a handler in flight has had another one beside it
  host,           \* platform.system() and platform.machine() of the host
  archive,        \* download_frpc: the release archive it has chosen
  call,           \* a call of start_tunnel made on the registry itself
  config,         \* ConfigManager._config and the file: api_key, username
  client_key,     \* APIClient.api_key
  screen,         \* the screen pushed last: "none", "login", "dashboard"
  boot,           \* TunnelApp.on_mount: where it is and how get_profile ended
  login,          \* the handlers of the login screen and their api_key
  server          \* the AuthServer of the browser flow

\* what the handlers of the dashboard never touch
authv == << config, client_key, screen, boot, login, server >>

aux == << host, archive, call, config, client_key, screen, boot, login,
         server >>

\* the state of the dashboard and the registry
dash == << processes, procs, configs, frpcInstalled, apiPort, portOpen,
           tunnel_data, table, hasData, mounted, tasks, timerOn, app, overlap >>

vars == << processes, procs, configs, frpcInstalled, apiPort, portOpen,
           tunnel_data, table, hasData, mounted, tasks, timerOn, app, overlap,
           host, archive, call, config, client_key, screen, boot, login,
           server >>

\* ------------------------------------------------------ the registry
Reg == [processes |-> processes, procs |-> procs, configs |-> configs]

\* Popen.poll() is None
Alive(pr, pid) == pid # 0 /\ pr[pid].st = "alive"

\* the status without the poll: a tracked handle counts as connected
get_tunnel_status_cached(R, t) ==
  IF R.processes[t] # 0 THEN "connected" ELSE "not_started"

\* the key test, then Popen.poll()
get_tunnel_status(R, t) ==
  IF R.processes[t] # 0
    THEN IF Alive(R.procs, R.processes[t]) THEN "connected" ELSE "disconnected"
    ELSE "not_started"

\* the list without the status test: every tracked id
list_active_tunnels_keys(R) == {t \in TunnelIds : R.processes[t] # 0}

\* the ids of self.processes whose status is connected
list_active_tunnels(R) ==
  {t \in TunnelIds : R.processes[t] # 0 /\ Alive(R.procs, R.processes[t])}

\* the config text with the bare subdomain as custom domain
config_content_bare(subdomain, local_port) ==
  << << "[common]" >>,
     << "server_addr", "=", ServerAddr >>,
     << "server_port", "=", ServerPort >>,
     << >>,
     << "[", subdomain, "]" >>,
     << "type", "=", "http" >>,
     << "local_ip", "=", "127.0.0.1" >>,
     << "local_port", "=", local_port >>,
     << "custom_domains", "=", subdomain >> >>

\* the text start_tunnel writes to <id>.ini, line by line, each line as
\* its tokens
config_content(subdomain, local_port) ==
  << << "[common]" >>,
     << "server_addr", "=", ServerAddr >>,
     << "server_port", "=", ServerPort >>,
     << >>,
     << "[", subdomain, "]" >>,
     << "type", "=", "http" >>,
     << "local_ip", "=", "127.0.0.1" >>,
     << "local_port", "=", local_port >>,
     << "custom_domains", "=", subdomain, ".", "tunnel.ovream.com" >> >>

\* stop_tunnel that forgets the handle and the file but leaves the process
\* running
stop_tunnel_forget(R, t) ==
  IF R.processes[t] # 0
    THEN [processes |-> [R.processes EXCEPT ![t] = 0],
          procs     |-> R.procs,
          configs   |-> [R.configs EXCEPT ![t] = NoFile]]
    ELSE R

\* stop_tunnel without the unlink of the config file
stop_tunnel_keep_config(R, t) ==
  IF R.processes[t] # 0
    THEN [processes |-> [R.processes EXCEPT ![t] = 0],
          procs     |-> [R.procs EXCEPT ![R.processes[t]].st = "dead"],
          configs   |-> R.configs]
    ELSE R

\* terminate(), wait(timeout=5), kill() on timeout: the process is gone
\* either way; then the key and the config file are removed.
stop_tunnel(R, t) ==
  IF R.processes[t] # 0
    THEN [processes |-> [R.processes EXCEPT ![t] = 0],
          procs     |-> [R.procs EXCEPT ![R.processes[t]].st = "dead"],
          configs   |-> [R.configs EXCEPT ![t] = NoFile]]
    ELSE R

\* a stop that answers True whatever it found
stop_tunnel_result_true(R, t) == TRUE

\* what stop_tunnel returns: True from the branch of a tracked id, False
\* past it
stop_tunnel_result(R, t) == R.processes[t] # 0

\* ensure_frpc_installed that downloads whether the binary is there or not
ensure_frpc_installed_always(installed) == "download"

\* ensure_frpc_installed: True at once when the binary exists, else the
\* download
ensure_frpc_installed(installed) == IF installed THEN "present" ELSE "download"

\* how one call of download_frpc can raise: a platform it has no archive
\* for, an answer other than 200, an archive without the binary, an error
\* of the network or of the extraction, and an error of chmod or of the
\* cleanup after the binary was moved into bin_dir
InstallFailures ==
  {"unsupported_platform", "bad_status", "not_in_archive", "io_error",
   "cleanup_error"}

\* how one call of download_frpc ends
DownloadOutcomes == {"installed"} \cup InstallFailures

\* download_frpc that moves what it extracted into bin_dir before it
\* looks for the binary
download_frpc_partial(outcome) ==
  [ok |-> outcome = "installed",
   installed |-> outcome \in {"installed", "not_in_archive", "cleanup_error"}]

\* download_frpc: True once the binary is in bin_dir and the cleanup is
\* done; the binary is in bin_dir from shutil.move on
download_frpc(outcome) ==
  [ok |-> outcome = "installed",
   installed |-> outcome \in {"installed", "cleanup_error"}]

RECURSIVE StopEach(_, _)
StopEach(R, ids) ==
  IF ids = << >> THEN R ELSE StopEach(stop_tunnel(R, Head(ids)), Tail(ids))

\* tunnel_ids = list(self.processes.keys()); stop each in turn
stop_all_tunnels(R) ==
  StopEach(R, SelectSeq(Order, LAMBDA t : R.processes[t] # 0))

FreePid(pr) == CHOOSE p \in Pids : pr[p].st = "free" /\ \A q \in Pids : pr[q].st = "free" => p <= q

CanSpawn(pr) == \E p \in Pids : pr[p].st = "free"

\* start_tunnel without the stop of the existing handle: the new handle
\* overwrites the old one
start_tunnel_no_stop(R, t, port, installed) ==
  LET R2  == [R EXCEPT !.configs[t] = config_content(Subdomain[t], port)]
      pid == FreePid(R2.procs)
  IN  IF installed
        THEN [reg |-> [R2 EXCEPT !.procs[pid] = [tid |-> t, st |-> "alive"],
                                 !.processes[t] = pid],
              pid |-> pid]
        ELSE [reg |-> R2, pid |-> 0]

\* start_tunnel up to its asyncio.sleep(1): stop the existing handle, write
\* the config file, Popen, store the handle.  Popen raises when the binary
\* is not there; then the file is written and nothing is stored (pid 0).
start_tunnel_spawn(R, t, port, installed) ==
  LET R1 == stop_tunnel(R, t)
      R2 == [R1 EXCEPT !.configs[t] = config_content(Subdomain[t], port)]
      pid == FreePid(R2.procs)
  IN  IF installed
        THEN [reg |-> [R2 EXCEPT !.procs[pid] = [tid |-> t, st |-> "alive"],
                                 !.processes[t] = pid],
              pid |-> pid]
        ELSE [reg |-> R2, pid |-> 0]

\* A Popen object nobody refers to any more is forgotten once its process
\* has exited.
Reap(pr, ps, ts) ==
  [p \in Pids |->
     IF pr[p].st = "dead" /\ (\A t \in TunnelIds : ps[t] # p)
                          /\ (\A k \in TaskIds : ts[k].proc # p)
       THEN FreeProc ELSE pr[p]]

SetReg(R, ts) ==
  /\ processes' = R.processes
  /\ configs' = R.configs
  /\ procs' = Reap(R.procs, R.processes, ts)

\* ------------------------------------------------------------ the tasks
\* h: the handler; pc: the await it is suspended at; items, idx: the dict
\* its loop walks and the position in it; tid, port: the arguments of
\* handle_save; prev: the registry status it read for the tunnel at hand
\* (current_status, frp_status) and proc: the process that status was read
\* from, or the one start_tunnel spawned; action: the branch taken; result:
\* how the last call that can fail ended; sent: the status reports issued.
IdleTask ==
  [h |-> "none", pc |-> "idle", items |-> NoItems, idx |-> 1, proc |-> 0,
   tid |-> "-", port |-> NoPort, action |-> "-", result |-> "-",
   prev |-> "-", sent |-> NoReports]

\* a constructed registry and a dashboard about to be mounted, the Remote
\* API listing the tunnels with the local ports api
DashInit(api) ==
  /\ processes = [t \in TunnelIds |-> 0]
  /\ procs = [p \in Pids |-> FreeProc]
  /\ configs = [t \in TunnelIds |-> NoFile]
  /\ frpcInstalled \in BOOLEAN
  /\ apiPort = api
  /\ portOpen \in [Ports -> BOOLEAN]
  /\ tunnel_data = NoItems
  /\ table = "columns"
  /\ hasData = FALSE
  /\ mounted = FALSE
  /\ tasks = [k \in TaskIds |-> IdleTask]
  /\ timerOn = FALSE
  /\ app = "running"
  /\ overlap = FALSE

\* the user has logged in with KeyA and the dashboard has been pushed
LoggedIn ==
  /\ config = [api_key |-> KeyA, username |-> "alice"]
  /\ client_key = KeyA
  /\ screen = "dashboard"
  /\ boot = [pc |-> "done", result |-> "ok"]
  /\ login = [k \in LoginIds |-> NoLogin]
  /\ server = NoServer

\* nothing of the host is looked at: the outcome of the download is drawn
\* from DownloadOutcomes
AuxInit ==
  /\ host = NoHost
  /\ archive = NoArchive
  /\ call = NoCall
  /\ LoggedIn

InitWith(api) == DashInit(api) /\ AuxInit

Init == InitWith([t \in TunnelIds |-> IF t = "t1" THEN 1 ELSE NoPort])



\* _is_port_available raises: connect_ex rejects the port, and the
\* function has a finally but no except
ProbeRaises(port) == port \notin 0 .. MaxPort

\* _is_port_available when it returns: connect_ex gave 0
is_port_available(port) == port \in Ports /\ portOpen[port]

\* load_tunnels probes the port of a listed tunnel that is not connected
\* and has a local_port; an exception of the probe ends its loop
LoadRaises(R, t) ==
  /\ get_tunnel_status(R, t) # "connected"
  /\ apiPort[t] # NoKey
  /\ apiPort[t] # NoPort
  /\ ProbeRaises(apiPort[t])

\* the dict load_tunnels has filled when it returns: each listed tunnel is
\* stored before its row is made, up to and including the first one whose
\* row could not be made
AsDict(R) ==
  [t \in TunnelIds |->
     IF \E i \in 1 .. Len(Order) :
          /\ Order[i] = t
          /\ \A j \in 1 .. (i - 1) : ~LoadRaises(R, Order[j])
       THEN apiPort[t] ELSE NoKey]

Append1(T, t, status) == [T EXCEPT !.sent[t] = Append(@, status)]

\* a handler that an exception of the port probe has left: the probe is
\* called outside the try blocks of the two passes
Raised == [IdleTask EXCEPT !.result = "probe_raised"]

\* the choice without the stop branch: a closed port is only reported
DecideNoStop(port_available, current_status) ==
  IF port_available /\ current_status # "connected" THEN "START"
  ELSE IF ~port_available THEN "REPORT_PORT_DOWN"
  ELSE "NONE"

\* the choice that starts on every open port, connected or not
DecideEager(port_available, current_status) ==
  IF port_available THEN "START"
  ELSE IF current_status = "connected" THEN "STOP"
  ELSE "REPORT_PORT_DOWN"

\* the action auto_connect_tunnels chooses for a tunnel with a local_port
Decide(port_available, current_status) ==
  IF port_available /\ current_status # "connected" THEN "START"
  ELSE IF ~port_available /\ current_status = "connected" THEN "STOP"
  ELSE IF ~port_available THEN "REPORT_PORT_DOWN"
  ELSE "NONE"

\* the status of the registry passed on as it is
SyncStatusRaw(frp_status, port_available) == frp_status

\* the status without the port probe
SyncStatusNoProbe(frp_status, port_available) ==
  IF frp_status = "connected" THEN "connected" ELSE "disconnected"

\* the status sync_connection_status reports
SyncStatus(frp_status, port_available) ==
  IF frp_status = "connected" /\ port_available THEN "connected"
  ELSE IF ~port_available THEN "port_down"
  ELSE "disconnected"

\* A coroutine and what it has done to the shared state so far:
\* M = [task, reg, td (tunnel_data), inst (binary present), timer].
Bundle(T) ==
  [task |-> T, reg |-> Reg, td |-> tunnel_data, tbl |-> table,
   inst |-> frpcInstalled,
   timer |-> timerOn]

\* the turn whose START branch spawns the process and takes the next
\* tunnel at once, the wait and the report of the start left behind
AcTurnNoAwait(M) ==
  LET T   == M.task
      t   == Order[T.idx]
      lp  == T.items[t]
      act == Decide(is_port_available(lp), get_tunnel_status(M.reg, t))
      S   == start_tunnel_spawn(M.reg, t, lp, M.inst)
  IN  IF lp = NoKey \/ lp = NoPort
        THEN [M EXCEPT !.task.idx = @ + 1]
      ELSE IF ProbeRaises(lp)
        THEN [M EXCEPT !.task = Raised]
      ELSE IF act = "START"
        THEN IF S.pid = 0
               THEN [M EXCEPT !.task.idx = @ + 1, !.task.result = "popen_failed",
                              !.reg = S.reg]
               ELSE [M EXCEPT !.task.idx = @ + 1, !.reg = S.reg]
      ELSE IF act = "STOP"
        THEN [M EXCEPT !.task = [Append1(T, t, "port_down") EXCEPT
                                   !.pc = "ac_report", !.action = act,
                                   !.prev = get_tunnel_status(M.reg, t),
                                   !.proc = M.reg.processes[t]],
                       !.reg = stop_tunnel(M.reg, t)]
      ELSE IF act = "REPORT_PORT_DOWN"
        THEN [M EXCEPT !.task = [Append1(T, t, "port_down") EXCEPT
                                   !.pc = "ac_report", !.action = act,
                                   !.prev = get_tunnel_status(M.reg, t),
                                   !.proc = M.reg.processes[t]]]
      ELSE [M EXCEPT !.task.idx = @ + 1]

\* the turn whose REPORT_PORT_DOWN branch clears the handle of the tunnel
AcTurnReportClears(M) ==
  LET T   == M.task
      t   == Order[T.idx]
      lp  == T.items[t]
      act == Decide(is_port_available(lp), get_tunnel_status(M.reg, t))
      S   == start_tunnel_spawn(M.reg, t, lp, M.inst)
  IN  IF lp = NoKey \/ lp = NoPort
        THEN [M EXCEPT !.task.idx = @ + 1]
      ELSE IF ProbeRaises(lp)
        THEN [M EXCEPT !.task = Raised]
      ELSE IF act = "START"
        THEN IF S.pid = 0
               THEN [M EXCEPT !.task.idx = @ + 1, !.task.result = "popen_failed",
                              !.reg = S.reg]
               ELSE [M EXCEPT !.task.pc = "ac_sleep", !.task.proc = S.pid,
                              !.task.action = act, !.reg = S.reg,
                              !.task.prev = get_tunnel_status(M.reg, t)]
      ELSE IF act = "STOP"
        THEN [M EXCEPT !.task = [Append1(T, t, "port_down") EXCEPT
                                   !.pc = "ac_report", !.action = act,
                                   !.prev = get_tunnel_status(M.reg, t),
                                   !.proc = M.reg.processes[t]],
                       !.reg = stop_tunnel(M.reg, t)]
      ELSE IF act = "REPORT_PORT_DOWN"
        THEN [M EXCEPT !.task = [Append1(T, t, "port_down") EXCEPT
                                   !.pc = "ac_report", !.action = act,
                                   !.prev = get_tunnel_status(M.reg, t),
                                   !.proc = M.reg.processes[t]],
                       !.reg = stop_tunnel(M.reg, t)]
      ELSE [M EXCEPT !.task.idx = @ + 1]

\* the turn whose STOP branch issues the report with the process still
\* running
AcTurnStopLate(M) ==
  LET T   == M.task
      t   == Order[T.idx]
      lp  == T.items[t]
      act == Decide(is_port_available(lp), get_tunnel_status(M.reg, t))
      S   == start_tunnel_spawn(M.reg, t, lp, M.inst)
  IN  IF lp = NoKey \/ lp = NoPort
        THEN [M EXCEPT !.task.idx = @ + 1]
      ELSE IF ProbeRaises(lp)
        THEN [M EXCEPT !.task = Raised]
      ELSE IF act = "START"
        THEN IF S.pid = 0
               THEN [M EXCEPT !.task.idx = @ + 1, !.task.result = "popen_failed",
                              !.reg = S.reg]
               ELSE [M EXCEPT !.task.pc = "ac_sleep", !.task.proc = S.pid,
                              !.task.action = act, !.reg = S.reg,
                              !.task.prev = get_tunnel_status(M.reg, t)]
      ELSE IF act = "STOP"
        THEN [M EXCEPT !.task = [Append1(T, t, "port_down") EXCEPT
                                   !.pc = "ac_report", !.action = act,
                                   !.prev = get_tunnel_status(M.reg, t),
                                   !.proc = M.reg.processes[t]]]
      ELSE IF act = "REPORT_PORT_DOWN"
        THEN [M EXCEPT !.task = [Append1(T, t, "port_down") EXCEPT
                                   !.pc = "ac_report", !.action = act,
                                   !.prev = get_tunnel_status(M.reg, t),
                                   !.proc = M.reg.processes[t]]]
      ELSE [M EXCEPT !.task.idx = @ + 1]

\* one turn of the loop of auto_connect_tunnels, up to its first await:
\* the sleep inside start_tunnel, or the status report
AcTurn(M) ==
  LET T   == M.task
      t   == Order[T.idx]
      lp  == T.items[t]
      act == Decide(is_port_available(lp), get_tunnel_status(M.reg, t))
      S   == start_tunnel_spawn(M.reg, t, lp, M.inst)
  IN  IF lp = NoKey \/ lp = NoPort
        THEN [M EXCEPT !.task.idx = @ + 1]
      ELSE IF ProbeRaises(lp)
        THEN [M EXCEPT !.task = Raised]
      ELSE IF act = "START"
        THEN IF S.pid = 0
               THEN [M EXCEPT !.task.idx = @ + 1, !.task.result = "popen_failed",
                              !.reg = S.reg]
               ELSE [M EXCEPT !.task.pc = "ac_sleep", !.task.proc = S.pid,
                              !.task.action = act, !.reg = S.reg,
                              !.task.prev = get_tunnel_status(M.reg, t)]
      ELSE IF act = "STOP"
        THEN [M EXCEPT !.task = [Append1(T, t, "port_down") EXCEPT
                                   !.pc = "ac_report", !.action = act,
                                   !.prev = get_tunnel_status(M.reg, t),
                                   !.proc = M.reg.processes[t]],
                       !.reg = stop_tunnel(M.reg, t)]
      ELSE IF act = "REPORT_PORT_DOWN"
        THEN [M EXCEPT !.task = [Append1(T, t, "port_down") EXCEPT
                                   !.pc = "ac_report", !.action = act,
                                   !.prev = get_tunnel_status(M.reg, t),
                                   !.proc = M.reg.processes[t]]]
      ELSE [M EXCEPT !.task.idx = @ + 1]

\* a turn of the sync loop that reconciles: it stops a running tunnel
\* whose port is closed before it reports
SyTurnActs(M) ==
  LET T  == M.task
      t  == Order[T.idx]
      lp == T.items[t]
      st == SyncStatus(get_tunnel_status(M.reg, t), is_port_available(lp))
  IN  IF lp = NoKey \/ lp = NoPort
        THEN [M EXCEPT !.task.idx = @ + 1]
      ELSE IF ProbeRaises(lp)
        THEN [M EXCEPT !.task = Raised]
        ELSE [M EXCEPT !.task = [Append1(T, t, st) EXCEPT
                                   !.pc = "sy_report", !.action = "SYNC",
                                   !.prev = get_tunnel_status(M.reg, t),
                                   !.proc = M.reg.processes[t]],
                       !.reg = IF st = "port_down" THEN stop_tunnel(M.reg, t)
                                                   ELSE M.reg]

\* the turn without the local_port test: a tunnel without a port counts as
\* one whose port is closed
SyTurnNoGuard(M) ==
  LET T  == M.task
      t  == Order[T.idx]
      lp == T.items[t]
      st == SyncStatus(get_tunnel_status(M.reg, t), is_port_available(lp))
  IN  IF lp = NoKey
        THEN [M EXCEPT !.task.idx = @ + 1]
      ELSE IF lp # NoPort /\ ProbeRaises(lp)
        THEN [M EXCEPT !.task = Raised]
        ELSE [M EXCEPT !.task = [Append1(T, t, st) EXCEPT
                                   !.pc = "sy_report", !.action = "SYNC",
                                   !.prev = get_tunnel_status(M.reg, t),
                                   !.proc = M.reg.processes[t]]]

\* one turn of the loop of sync_connection_status, up to the status report
SyTurn(M) ==
  LET T  == M.task
      t  == Order[T.idx]
      lp == T.items[t]
      st == SyncStatus(get_tunnel_status(M.reg, t), is_port_available(lp))
  IN  IF lp = NoKey \/ lp = NoPort
        THEN [M EXCEPT !.task.idx = @ + 1]
      ELSE IF ProbeRaises(lp)
        THEN [M EXCEPT !.task = Raised]
        ELSE [M EXCEPT !.task = [Append1(T, t, st) EXCEPT
                                   !.pc = "sy_report", !.action = "SYNC",
                                   !.prev = get_tunnel_status(M.reg, t),
                                   !.proc = M.reg.processes[t]]]

\* the places where a coroutine goes on without suspending
Transient == {"enter_ac", "ac_loop", "after_ac", "sy_loop"}

\* the coroutine from one such place to the next
Advance(M) ==
  LET T == M.task
  IN  CASE T.pc = "enter_ac" ->
             \* ensure_frpc_installed at the head of auto_connect_tunnels; the
             \* loop walks the dict object that is current when it starts
             IF ensure_frpc_installed(M.inst) = "present"
               THEN [M EXCEPT !.task.pc = "ac_loop", !.task.items = M.td,
                              !.task.idx = 1, !.task.result = "frpc_present"]
               ELSE [M EXCEPT !.task.pc = "install"]
        [] T.pc = "ac_loop" ->
             \* after the loop: await self.load_tunnels()
             IF T.idx > Len(Order)
               THEN [M EXCEPT !.task.pc = "list2", !.td = NoItems,
                              !.tbl = "columns"]
               ELSE AcTurn(M)
        [] T.pc = "after_ac" ->
             \* on_mount sets the timer and returns; action_refresh goes on
             \* to sync_connection_status
             IF T.h = "mount"
               THEN [M EXCEPT !.task = IdleTask, !.timer = TRUE]
               ELSE [M EXCEPT !.task.pc = "sy_loop", !.task.items = M.td,
                              !.task.idx = 1]
        [] OTHER ->
             IF T.idx > Len(Order)
               THEN [M EXCEPT !.task = IdleTask]
               ELSE SyTurn(M)

\* the coroutine up to its next suspending await
RECURSIVE Run(_)
Run(M) == IF M.task.pc \in Transient THEN Run(Advance(M)) ELSE M

\* history: set when two handlers are in flight at once, cleared when none
\* is left
Overlap(ts) ==
  IF \A k \in TaskIds : ts[k].pc = "idle" THEN FALSE
  ELSE IF \A k \in TaskIds : ts[k].pc # "idle" THEN TRUE
  ELSE overlap

Apply(k, M) ==
  /\ tasks' = [tasks EXCEPT ![k] = M.task]
  /\ overlap' = Overlap(tasks')
  /\ SetReg(M.reg, tasks')
  /\ tunnel_data' = M.td
  /\ table' = M.tbl
  /\ frpcInstalled' = M.inst
  /\ timerOn' = M.timer

\* ---------------------------------------------------- DashboardScreen
\* on_mount up to the get_quota_info await of load_quota_info
MountStart ==
  /\ app = "running"
  /\ ~mounted
  /\ mounted' = TRUE
  /\ tasks' = [tasks EXCEPT !["screen"] = [IdleTask EXCEPT !.h = "mount", !.pc = "quota"]]
  /\ overlap' = Overlap(tasks')
  /\ UNCHANGED << aux, processes, procs, configs, frpcInstalled, apiPort, portOpen,
                  tunnel_data, table, hasData, timerOn, app >>

\* action_refresh up to the get_quota_info await of load_quota_info
RefreshStart ==
  /\ app = "running"
  /\ mounted
  /\ tasks["user"].pc = "idle"
  /\ tasks' = [tasks EXCEPT !["user"] = [IdleTask EXCEPT !.h = "refresh", !.pc = "quota"]]
  /\ overlap' = Overlap(tasks')
  /\ UNCHANGED << aux, processes, procs, configs, frpcInstalled, apiPort, portOpen,
                  tunnel_data, table, hasData, mounted, timerOn, app >>

\* get_quota_info returns or raises (load_quota_info shows the quota or
\* nothing); load_tunnels begins: a fresh dict, then the list_tunnels await
QuotaDone(k) ==
  /\ app # "exited"
  /\ tasks[k].pc = "quota"
  /\ tunnel_data' = NoItems
  /\ table' = "columns"
  /\ hasData' = TRUE
  /\ tasks' = [tasks EXCEPT ![k].pc = "list1"]
  /\ UNCHANGED << aux, processes, procs, configs, frpcInstalled, apiPort, portOpen,
                  mounted, timerOn, app, overlap >>

\* how one call of list_tunnels ends: the list, [] for an answer other
\* than 200, or an exception of the HTTP session
ListOutcomes == {"listed", "bad_status", "raised"}

\* what load_tunnels puts into the table: the rows of the list, with an
\* error row after them when making a row raised; "No tunnels yet" for an
\* empty list; the error row for an exception
ShowList(outcome, R) ==
  IF outcome = "listed"
    THEN IF \E t \in TunnelIds : LoadRaises(R, t) THEN "error" ELSE "rows"
  ELSE IF outcome = "bad_status" THEN "empty"
  ELSE "error"

\* list_tunnels returns or raises, load_tunnels fills the dict and the
\* table and catches every exception, and the caller goes on
ListDone(k) ==
  /\ app # "exited"
  /\ tasks[k].pc \in {"list1", "list2", "list3"}
  /\ CanSpawn(procs)
  /\ \E outcome \in ListOutcomes :
       LET T  == tasks[k]
           M  == [Bundle(T) EXCEPT
                    !.td = IF outcome = "listed" THEN AsDict(Reg) ELSE tunnel_data,
                    !.tbl = ShowList(outcome, Reg)]
       IN  Apply(k, Run([M EXCEPT !.task =
                           CASE T.pc = "list1" -> [T EXCEPT !.pc = "enter_ac"]
                             [] T.pc = "list2" -> [T EXCEPT !.pc = "after_ac"]
                             [] OTHER          -> IdleTask]))
  /\ UNCHANGED << aux, apiPort, portOpen, hasData, mounted, app >>

\* download_frpc returns True or raises; on a failure auto_connect_tunnels
\* returns at once
InstallDone(k) ==
  /\ app # "exited"
  /\ tasks[k].pc = "install"
  /\ CanSpawn(procs)
  /\ \E outcome \in DownloadOutcomes :
       LET T == tasks[k]
           M == Bundle(T)
           D == download_frpc(outcome)
       IN  Apply(k, Run(IF D.ok
                          THEN [M EXCEPT !.inst = M.inst \/ D.installed,
                                         !.task.pc = "ac_loop",
                                         !.task.items = M.td, !.task.idx = 1,
                                         !.task.result = "frpc_downloaded"]
                          ELSE [M EXCEPT !.inst = M.inst \/ D.installed,
                                         !.task.pc = "after_ac",
                                         !.task.result = outcome]))
  /\ UNCHANGED << aux, apiPort, portOpen, hasData, mounted, app >>

\* start_tunnel returning True without the poll after its sleep
AcWakeTurnNoPoll(M) ==
  [M EXCEPT !.task = [Append1(M.task, Order[M.task.idx], "connected") EXCEPT
                        !.result = "started", !.pc = "ac_report"]]

\* start_tunnel after its sleep with no try around the call: the error of
\* a failed start leaves the handler
AcWakeTurnAbort(M) ==
  LET T == M.task
  IN  IF Alive(M.reg.procs, T.proc)
        THEN [M EXCEPT !.task = [Append1(T, Order[T.idx], "connected") EXCEPT
                                   !.result = "started", !.pc = "ac_report"]]
        ELSE [M EXCEPT !.task = [IdleTask EXCEPT !.result = "start_failed"]]

\* start_tunnel after its sleep: poll, raise if the process has exited;
\* auto_connect_tunnels reports connected after a start that returned
AcWakeTurn(M) ==
  LET T == M.task
  IN  IF Alive(M.reg.procs, T.proc)
        THEN [M EXCEPT !.task = [Append1(T, Order[T.idx], "connected") EXCEPT
                                   !.result = "started", !.pc = "ac_report"]]
        ELSE [M EXCEPT !.task = [T EXCEPT !.result = "start_failed",
                                          !.pc = "ac_loop", !.proc = 0,
                                          !.idx = @ + 1, !.action = "-",
                                          !.prev = "-"]]

AcWake(k) ==
  /\ app # "exited"
  /\ tasks[k].pc = "ac_sleep"
  /\ CanSpawn(procs)
  /\ Apply(k, Run(AcWakeTurn(Bundle(tasks[k]))))
  /\ UNCHANGED << aux, apiPort, portOpen, hasData, mounted, app >>

\* how one call of update_connection_status ends: the answer, None for a
\* status other than 200, or an exception of the HTTP session
ReportOutcomes == {"ok", "bad_status", "raised"}

\* a report whose exception is not caught: it leaves the handler
ReportTurnRaise(M, outcome) ==
  LET T == M.task
  IN  IF outcome = "raised"
        THEN [M EXCEPT !.task = [IdleTask EXCEPT !.result = "report_raised"]]
        ELSE [M EXCEPT !.task =
                [T EXCEPT !.pc = IF T.pc = "ac_report" THEN "ac_loop"
                                                       ELSE "sy_loop",
                          !.idx = @ + 1, !.action = "-", !.prev = "-",
                          !.proc = 0]]

\* a report that is sent once more when it failed
ReportTurnRetry(M, outcome) ==
  LET T == M.task
      t == Order[T.idx]
  IN  IF outcome # "ok" /\ Len(T.sent[t]) < 3
        THEN [M EXCEPT !.task = Append1(T, t, T.sent[t][Len(T.sent[t])])]
        ELSE [M EXCEPT !.task =
                [T EXCEPT !.pc = IF T.pc = "ac_report" THEN "ac_loop"
                                                       ELSE "sy_loop",
                          !.idx = @ + 1, !.action = "-", !.prev = "-",
                          !.proc = 0]]

\* the loop after the report: the value returned is dropped and the
\* exception is caught by the except of the try the call stands in; the
\* next tunnel is taken
ReportTurn(M, outcome) ==
  LET T == M.task
  IN  [M EXCEPT !.task =
         [T EXCEPT !.pc = IF T.pc = "ac_report" THEN "ac_loop" ELSE "sy_loop",
                   !.idx = @ + 1, !.action = "-", !.prev = "-", !.proc = 0]]

\* update_connection_status returns or raises, and the loop goes on
ReportDone(k) ==
  /\ app # "exited"
  /\ tasks[k].pc \in {"ac_report", "sy_report"}
  /\ CanSpawn(procs)
  /\ \E M \in {Run(ReportTurn(Bundle(tasks[k]), outcome)) :
                  outcome \in ReportOutcomes} : Apply(k, M)
  /\ UNCHANGED << aux, apiPort, portOpen, hasData, mounted, app >>

\* a periodic_sync that loads the quota and the list before it goes on
TimerTickFetch ==
  /\ app = "running"
  /\ timerOn
  /\ tasks["screen"].pc = "idle"
  /\ tasks' = [tasks EXCEPT !["screen"] =
                 [IdleTask EXCEPT !.h = "timer", !.pc = "quota"]]
  /\ overlap' = Overlap(tasks')
  /\ UNCHANGED << aux, processes, procs, configs, frpcInstalled, apiPort, portOpen,
                  tunnel_data, table, hasData, mounted, timerOn, app >>

\* the interval timer fires: periodic_sync runs sync_connection_status
TimerTick ==
  /\ app = "running"
  /\ timerOn
  /\ tasks["screen"].pc = "idle"
  /\ Apply("screen", Run(Bundle(IF hasData
                                  THEN [IdleTask EXCEPT !.h = "timer", !.pc = "sy_loop",
                                                        !.items = tunnel_data]
                                  ELSE IdleTask)))
  /\ UNCHANGED << aux, apiPort, portOpen, hasData, mounted, app >>

\* ------------------------------------------------ EditTunnelPortScreen
\* load_tunnels of the dashboard, called by handle_save before pop_screen
BeginLoad3(M) ==
  [M EXCEPT !.task.pc = "list3", !.task.proc = 0, !.td = NoItems,
            !.tbl = "columns"]

\* handle_save up to the update_tunnel_port await; t is the selected row,
\* p the port typed in (NoPort: the field left empty)
EditStart(t, p) ==
  /\ app = "running"
  /\ tasks["user"].pc = "idle"
  /\ hasData
  /\ tunnel_data[t] # NoKey
  /\ tasks' = [tasks EXCEPT !["user"] =
                 [IdleTask EXCEPT !.h = "edit", !.pc = "e_update", !.tid = t, !.port = p]]
  /\ overlap' = Overlap(tasks')
  /\ UNCHANGED << aux, processes, procs, configs, frpcInstalled, apiPort, portOpen,
                  tunnel_data, table, hasData, mounted, timerOn, app >>

\* handle_save once update_tunnel_port has answered 200: start the tunnel
\* if the new port is open (without ensure_frpc_installed), stop it if the
\* port was cleared
EditTurn(M) ==
  LET T == M.task
      S == start_tunnel_spawn(M.reg, T.tid, T.port, M.inst)
  IN  IF T.port = NoPort
        THEN BeginLoad3([M EXCEPT !.task.action = "STOP",
                                  !.task.result =
                                    IF stop_tunnel_result(M.reg, T.tid)
                                      THEN "stopped" ELSE "not_running",
                                  !.reg = stop_tunnel(M.reg, T.tid)])
      ELSE IF ~is_port_available(T.port)
        THEN BeginLoad3([M EXCEPT !.task.action = "NONE"])
      ELSE IF S.pid = 0
        THEN BeginLoad3([M EXCEPT !.task.action = "START",
                                  !.task.result = "popen_failed", !.reg = S.reg])
      ELSE [M EXCEPT !.task.action = "START", !.task.pc = "e_sleep",
                     !.task.proc = S.pid, !.reg = S.reg,
                     !.task.prev = get_tunnel_status(M.reg, T.tid)]

\* update_tunnel_port returns: on an error handle_save shows it and returns
EditUpdateDone ==
  /\ app # "exited"
  /\ tasks["user"].pc = "e_update"
  /\ CanSpawn(procs)
  /\ \E ok \in BOOLEAN :
       LET T == tasks["user"]
       IN  IF ok
             THEN /\ apiPort' = [apiPort EXCEPT ![T.tid] = T.port]
                  /\ Apply("user", EditTurn(Bundle(T)))
             ELSE /\ apiPort' = apiPort
                  /\ Apply("user", [Bundle(T) EXCEPT !.task = IdleTask])
  /\ UNCHANGED << aux, portOpen, hasData, mounted, app >>

\* start_tunnel after its sleep, inside handle_save; either way the
\* dashboard is reloaded next
EditWakeTurn(M) ==
  BeginLoad3([M EXCEPT !.task.result = IF Alive(M.reg.procs, M.task.proc)
                                         THEN "started" ELSE "start_failed"])

EditWake ==
  /\ app # "exited"
  /\ tasks["user"].pc = "e_sleep"
  /\ Apply("user", EditWakeTurn(Bundle(tasks["user"])))
  /\ UNCHANGED << aux, apiPort, portOpen, hasData, mounted, app >>

\* ----------------------------------------------------------- TunnelApp
\* on_shutdown: stop_all_tunnels, then the await that closes the API client
Shutdown ==
  /\ app = "running"
  /\ app' = "closing"
  /\ SetReg(stop_all_tunnels(Reg), tasks)
  /\ UNCHANGED << aux, frpcInstalled, apiPort, portOpen, tunnel_data, table, hasData, mounted, tasks,
                  timerOn, overlap >>

\* on_shutdown returns and the program exits: its coroutines are gone, the
\* processes it spawned and the files it wrote are not
ShutdownDone ==
  /\ app = "closing"
  /\ app' = "exited"
  /\ tasks' = [k \in TaskIds |-> IdleTask]
  /\ overlap' = FALSE
  /\ SetReg(Reg, tasks')
  /\ UNCHANGED << aux, frpcInstalled, apiPort, portOpen, tunnel_data, table, hasData, mounted,
                  timerOn >>

\* ------------------------------------------------------ the environment
\* a local service starts or stops listening
PortFlip(p) ==
  /\ app # "exited"
  /\ portOpen' = [portOpen EXCEPT ![p] = ~@]
  /\ UNCHANGED << aux, processes, procs, configs, frpcInstalled, apiPort, tunnel_data, table,
                  hasData, mounted, tasks, timerOn, app, overlap >>

\* a forwarding process exits by itself
ProcExit(pid) ==
  /\ app # "exited"
  /\ procs[pid].st = "alive"
  /\ SetReg([Reg EXCEPT !.procs[pid].st = "dead"], tasks)
  /\ UNCHANGED << aux, frpcInstalled, apiPort, portOpen, tunnel_data, table, hasData, mounted, tasks,
                  timerOn, app, overlap >>

Next ==
  \/ MountStart
  \/ RefreshStart
  \/ TimerTick
  \/ \E k \in TaskIds : QuotaDone(k)
  \/ \E k \in TaskIds : ListDone(k)
  \/ \E k \in TaskIds : InstallDone(k)
  \/ \E k \in TaskIds : AcWake(k)
  \/ \E k \in TaskIds : ReportDone(k)
  \/ \E t \in EditRows, p \in Ports \cup {NoPort} : EditStart(t, p)
  \/ EditUpdateDone
  \/ EditWake
  \/ Shutdown
  \/ ShutdownDone
  \/ \E p \in Ports : PortFlip(p)
  \/ \E pid \in Pids : ProcExit(pid)

Spec == Init /\ [][Next]_vars

\* The Remote API lists both tunnels with a local_port, and the handlers
\* run one after the other: the user refreshes (R) only while nothing else
\* is in flight, and leaves the ports alone.
InitTwo == InitWith([t \in TunnelIds |-> IF t = "t1" THEN 1 ELSE 2])

NextTwo ==
  \/ MountStart
  \/ tasks["user"].pc = "idle" /\ TimerTick
  \/ tasks["screen"].pc = "idle" /\ RefreshStart
  \/ \E k \in TaskIds :
       \/ QuotaDone(k)
       \/ ListDone(k)
       \/ InstallDone(k)
       \/ AcWake(k)
       \/ ReportDone(k)
  \/ \E p \in Ports : PortFlip(p)
  \/ \E pid \in Pids : ProcExit(pid)

SpecTwo == InitTwo /\ [][NextTwo]_vars

\* no handler is in flight
Quiet == \A k \in TaskIds : tasks[k].pc = "idle"

\* list_tunnels of task k is answered with the list
ListAnswered(k) ==
  /\ ListDone(k)
  /\ tunnel_data' # NoItems \/ tasks'[k].items # NoItems

\* The Remote API lists both tunnels with a local_port and answers every
\* list request; every handler (dashboard load, timer, refresh, port edit)
\* begins only while no other is in flight, and the ports change only
\* between handlers.  A forwarding process can exit at any time.
NextSeq ==
  \/ MountStart
  \/ Quiet /\ TimerTick
  \/ Quiet /\ RefreshStart
  \/ Quiet /\ \E t \in EditRows, p \in Ports \cup {NoPort} : EditStart(t, p)
  \/ \E k \in TaskIds :
       \/ QuotaDone(k)
       \/ ListAnswered(k)
       \/ InstallDone(k)
       \/ AcWake(k)
       \/ ReportDone(k)
  \/ EditUpdateDone
  \/ EditWake
  \/ Quiet /\ \E p \in Ports : PortFlip(p)
  \/ \E pid \in Pids : ProcExit(pid)

SpecSeq == InitTwo /\ [][NextSeq]_vars

\* The binary is installed, the list and the ports never change, and a
\* forwarding process exits only while the dashboard load is in flight:
\* between and during the later passes nothing changes but what the
\* passes do.
InitIdem == InitTwo /\ frpcInstalled

NextIdem ==
  \/ MountStart
  \/ Quiet /\ TimerTick
  \/ Quiet /\ RefreshStart
  \/ \E k \in TaskIds :
       \/ QuotaDone(k)
       \/ ListAnswered(k)
       \/ AcWake(k)
       \/ ReportDone(k)
  \/ tasks["screen"].h = "mount" /\ \E pid \in Pids : ProcExit(pid)

SpecIdem == InitIdem /\ [][NextIdem]_vars

\* ------------------------------------------ action_delete_tunnel
\* action_delete_tunnel up to the delete_tunnel await; t is the selected
\* row, found in tunnel_data
DeleteStart(t) ==
  /\ app = "running"
  /\ tasks["user"].pc = "idle"
  /\ hasData
  /\ tunnel_data[t] # NoKey
  /\ tasks' = [tasks EXCEPT !["user"] =
                 [IdleTask EXCEPT !.h = "delete", !.pc = "d_delete", !.tid = t]]
  /\ overlap' = Overlap(tasks')
  /\ UNCHANGED << aux, processes, procs, configs, frpcInstalled, apiPort,
                  portOpen, tunnel_data, table, hasData, mounted, timerOn, app >>

\* how delete_tunnel ends: 200 (True), another status (False), or an
\* exception of the HTTP session
DeleteOutcomes == {"deleted", "bad_status", "raised"}

\* delete_tunnel returns or raises: the value is dropped, "Tunnel deleted"
\* is shown and load_tunnels begins; an exception ends the handler.  The
\* registry is not called.
DeleteDone ==
  /\ app # "exited"
  /\ tasks["user"].pc = "d_delete"
  /\ \E outcome \in DeleteOutcomes :
       LET T == tasks["user"]
       IN  /\ apiPort' = IF outcome = "deleted"
                           THEN [apiPort EXCEPT ![T.tid] = NoKey]
                           ELSE apiPort
           /\ Apply("user",
                    IF outcome = "raised"
                      THEN [Bundle(T) EXCEPT !.task = IdleTask]
                      ELSE BeginLoad3([Bundle(T) EXCEPT !.task.result = outcome]))
  /\ UNCHANGED << aux, portOpen, hasData, mounted, app >>

\* The handlers one at a time, as under SpecSeq, with the deletion of a
\* tunnel among them.
NextDel ==
  \/ NextSeq
  \/ Quiet /\ \E t \in TunnelIds : DeleteStart(t)
  \/ DeleteDone

SpecDel == InitTwo /\ [][NextDel]_vars

\* ----------------------------------------------------- download_frpc
\* sub in s of two strings
Contains(sub, s) ==
  \E i \in 1 .. (Len(s) - Len(sub) + 1) :
    SubSeq(s, i, i + Len(sub) - 1) = sub

\* the platform_name of download_frpc, as << os, arch >>; the empty tuple
\* when it raises "Unsupported platform"
platform_name(system, machine) ==
  IF system = "darwin"
    THEN IF Contains(<< "a", "r", "m" >>, machine)
              \/ Contains(<< "a", "a", "r", "c", "h", "6", "4" >>, machine)
           THEN << "darwin", "arm64" >>
           ELSE << "darwin", "amd64" >>
  ELSE IF system = "linux"
    THEN IF Contains(<< "a", "r", "m" >>, machine)
           THEN << "linux", "arm64" >>
           ELSE << "linux", "amd64" >>
  ELSE IF system = "windows"
    THEN << "windows", "amd64" >>
  ELSE << >>

\* download_frpc maps the host to the release name, or raises
MapPlatform ==
  /\ archive.pc = "start"
  /\ host # NoHost
  /\ LET pn == platform_name(host.system, host.machine)
     IN  archive' = [archive EXCEPT !.platform = pn,
                                    !.pc = IF pn = << >> THEN "raised" ELSE "mapped"]
  /\ UNCHANGED << dash, host, call, authv >>

\* download_frpc names the file: a zip on windows, a tar.gz elsewhere
NameArchive ==
  /\ archive.pc = "mapped"
  /\ archive' = [archive EXCEPT !.pc = "named",
                                 !.ext = IF host.system = "windows" THEN "zip"
                                                                    ELSE "tar.gz"]
  /\ UNCHANGED << dash, host, call, authv >>

\* download_frpc on each of the hosts, up to the name of the file it asks
\* for; the dashboard is not mounted
InitHost ==
  /\ DashInit([t \in TunnelIds |-> IF t = "t1" THEN 1 ELSE NoPort])
  /\ ~frpcInstalled
  /\ portOpen = [p \in Ports |-> FALSE]
  /\ host \in [system : Systems, machine : Machines]
  /\ archive = NoArchive
  /\ call = NoCall
  /\ LoggedIn

NextHost == MapPlatform \/ NameArchive

SpecHost == InitHost /\ [][NextHost]_vars

\* ------------------------------------------- start_tunnel on the registry
\* all([tunnel_id, subdomain, remote_port])
all_fields(data) ==
  /\ data.id # NoText
  /\ data.subdomain # NoText
  /\ data.remote_port # NoNumber

\* start_tunnel that looks at the three fields only after the stop of the
\* existing handle, the config file and the spawn
start_tunnel_validate_late(R, data, port, installed) ==
  IF data.id = NoText
    THEN [reg |-> R, pid |-> 0, err |-> "invalid_data"]
    ELSE LET S == start_tunnel_spawn(R, data.id, port, installed)
         IN  IF ~all_fields(data)
               THEN [reg |-> S.reg, pid |-> 0, err |-> "invalid_data"]
               ELSE [reg |-> S.reg, pid |-> S.pid,
                     err |-> IF S.pid = 0 THEN "start_failed" ELSE "-"]

\* start_tunnel up to its asyncio.sleep(1): ValueError("Invalid tunnel
\* data") when one of the three fields is missing, before anything else;
\* else the stop, the file, the spawn and the handle
start_tunnel(R, data, port, installed) ==
  IF ~all_fields(data)
    THEN [reg |-> R, pid |-> 0, err |-> "invalid_data"]
    ELSE LET S == start_tunnel_spawn(R, data.id, port, installed)
         IN  [reg |-> S.reg, pid |-> S.pid,
              err |-> IF S.pid = 0 THEN "start_failed" ELSE "-"]

\* the dict of tunnel t with the keys of miss absent
CallData(t, miss) ==
  [id          |-> IF "id" \in miss THEN NoText ELSE t,
   subdomain   |-> IF "subdomain" \in miss THEN NoText ELSE Subdomain[t],
   remote_port |-> IF "remote_port" \in miss THEN NoNumber ELSE RemotePort[t]]

\* start_tunnel(data, port) is called and runs to its sleep, or raises
CallStart(data, port) ==
  /\ app = "running"
  /\ call.pc = "idle"
  /\ CanSpawn(procs)
  /\ LET S == start_tunnel(Reg, data, port, frpcInstalled)
     IN  /\ SetReg(S.reg, tasks)
         /\ call' = [pc   |-> IF S.err = "-" THEN "sleep" ELSE "idle",
                     data |-> data, port |-> port, pid |-> S.pid,
                     err  |-> S.err]
  /\ UNCHANGED << authv, host, archive, frpcInstalled, apiPort, portOpen,
                  tunnel_data, table, hasData, mounted, tasks, timerOn, app,
                  overlap >>

\* start_tunnel after the sleep: poll(), and the exception when the
\* process has exited; the handle stays
CallWake ==
  /\ call.pc = "sleep"
  /\ call' = [call EXCEPT !.pc = "idle",
                          !.err = IF Alive(procs, call.pid) THEN "-"
                                                            ELSE "start_failed"]
  /\ UNCHANGED << dash, host, archive, authv >>

\* The registry alone, the dashboard not mounted: start_tunnel is called
\* with the dict of a tunnel, whole or with keys missing, and a port; a
\* forwarding process can exit at any time.
NextCall ==
  \/ \E t \in TunnelIds, miss \in SUBSET Fields, p \in Ports :
       CallStart(CallData(t, miss), p)
  \/ CallWake
  \/ \E pid \in Pids : ProcExit(pid)

SpecCall == InitTwo /\ [][NextCall]_vars

\* ------------------------------------------- the login and the AuthServer
\* str.strip() of what was typed
RECURSIVE lstrip(_)
lstrip(s) == IF s # << >> /\ Head(s) = " " THEN lstrip(Tail(s)) ELSE s

RECURSIVE rstrip(_)
rstrip(s) ==
  IF s # << >> /\ s[Len(s)] = " " THEN rstrip(SubSeq(s, 1, Len(s) - 1)) ELSE s

strip(s) == rstrip(lstrip(s))

\* api_key.startswith("tk_")
startswith_tk(s) == Len(s) >= 3 /\ SubSeq(s, 1, 3) = << "t", "k", "_" >>

\* what the user can have typed into the key field
Typed == {<< >>, << " " >>, KeyBare, KeyA, << " " >> \o KeyB \o << " " >>}

\* how get_profile ends: 200 with a user that has a username, 200 with no
\* "user" (the default {}), 200 with "user": null (None), another status
\* (raises), an exception of the HTTP session
ProfileOutcomes == {"ok", "ok_no_name", "ok_null_user", "rejected", "raised"}

\* get_profile returned
ProfileOk == {"ok", "ok_no_name", "ok_null_user"}

\* authenticate_with_key that saves the key and the username whatever the
\* profile request answered
authenticate_with_key_unchecked(cfg, api_key, outcome) ==
  [config |-> [api_key |-> api_key,
               username |-> IF outcome = "ok" THEN "alice" ELSE "User"],
   raised |-> outcome \notin {"ok", "ok_no_name"}]

\* TunnelApp.authenticate_with_key from the answer of get_profile on: an
\* exception of get_profile goes to the caller with the config untouched;
\* else api_key is saved, then profile.get("username", "User"), which
\* raises on None
authenticate_with_key(cfg, api_key, outcome) ==
  IF outcome \notin ProfileOk
    THEN [config |-> cfg, raised |-> TRUE]
  ELSE IF outcome = "ok_null_user"
    THEN [config |-> [cfg EXCEPT !.api_key = api_key], raised |-> TRUE]
  ELSE [config |-> [api_key |-> api_key,
                    username |-> IF outcome = "ok" THEN "alice" ELSE "User"],
        raised |-> FALSE]

\* the bodies a POST /callback can carry: JSON with or without a
\* session_id and an api_key, or something that is not JSON
Bodies ==
  [json : {TRUE}, session_id : SessionIds \cup {NoSession},
   api_key : {KeyA, KeyBare, NoApiKey}]
  \cup {[json |-> FALSE, session_id |-> NoSession, api_key |-> NoApiKey]}

\* handle_callback that takes the key of any JSON body
handle_callback_any_session(srv, body) ==
  IF ~body.json
    THEN [srv EXCEPT !.response = "error_500"]
    ELSE [srv EXCEPT !.api_key = body.api_key,
                     !.accepted = @ \cup {body.api_key},
                     !.response = "success"]

\* handle_callback: the key of a body whose session_id is the server's is
\* stored and answered with success; another session_id is answered 400
\* "Invalid session"; a body that is not JSON is answered 500
handle_callback(srv, body) ==
  IF ~body.json
    THEN [srv EXCEPT !.response = "error_500"]
  ELSE IF body.session_id = srv.session_id
    THEN [srv EXCEPT !.api_key = body.api_key,
                     !.accepted = @ \cup {body.api_key},
                     !.response = "success"]
  ELSE [srv EXCEPT !.response = "invalid_session"]

\* TunnelApp.on_mount up to the get_profile await, or to the login screen
\* when no key is stored
AppMount ==
  /\ boot.pc = "start"
  /\ IF config.api_key # NoApiKey
       THEN /\ client_key' = config.api_key
            /\ boot' = [pc |-> "profile", result |-> "-"]
            /\ screen' = screen
       ELSE /\ client_key' = client_key
            /\ boot' = [pc |-> "done", result |-> "no_key"]
            /\ screen' = "login"
  /\ UNCHANGED << dash, host, archive, call, config, login, server >>

\* on_mount after get_profile: the dashboard, or config.clear() and the
\* login screen on any exception
BootProfileDone ==
  /\ boot.pc = "profile"
  /\ \E outcome \in ProfileOutcomes :
       /\ boot' = [pc |-> "done", result |-> outcome]
       /\ IF outcome \in ProfileOk
            THEN config' = config /\ screen' = "dashboard"
            ELSE config' = NoConfig /\ screen' = "login"
  /\ UNCHANGED << dash, host, archive, call, client_key, login, server >>

\* handle_authenticate: the typed key is stripped and checked for its
\* form, then LoginScreen.authenticate_with_key runs to the get_profile
\* await of TunnelApp.authenticate_with_key
Authenticate(typed) ==
  /\ screen = "login"
  /\ login["manual"].pc = "idle"
  /\ LET api_key == strip(typed)
     IN  IF api_key = NoApiKey
           THEN /\ login' = [login EXCEPT !["manual"] =
                               [NoLogin EXCEPT !.result = "no_key_typed"]]
                /\ client_key' = client_key
         ELSE IF ~startswith_tk(api_key)
           THEN /\ login' = [login EXCEPT !["manual"] =
                               [NoLogin EXCEPT !.result = "bad_format"]]
                /\ client_key' = client_key
         ELSE /\ login' = [login EXCEPT !["manual"] =
                             [NoLogin EXCEPT !.pc = "profile",
                                             !.api_key = api_key]]
              /\ client_key' = api_key
  /\ UNCHANGED << dash, host, archive, call, config, screen, boot, server >>

\* get_profile of a login handler answers: the credentials are saved and
\* the dashboard pushed, or the failure is shown; the browser flow stops
\* its server in the finally
LoginProfileDone(k) ==
  /\ login[k].pc = "profile"
  /\ \E outcome \in ProfileOutcomes :
       LET A == authenticate_with_key(config, login[k].api_key, outcome)
       IN  /\ config' = A.config
           /\ screen' = IF A.raised THEN screen ELSE "dashboard"
           /\ login' = [login EXCEPT ![k] = [NoLogin EXCEPT !.result = outcome]]
  /\ server' = IF k = "browser" THEN NoServer ELSE server
  /\ UNCHANGED << dash, host, archive, call, client_key, boot >>

\* handle_browser_auth: a new AuthServer with its session id is started
\* and wait_for_auth finds no key and sleeps; or start() raises
BrowserAuth ==
  /\ screen = "login"
  /\ login["browser"].pc = "idle"
  /\ \E sid \in SessionIds, started \in BOOLEAN :
       IF started
         THEN /\ server' = [NoServer EXCEPT !.up = TRUE, !.session_id = sid]
              /\ login' = [login EXCEPT !["browser"] =
                             [NoLogin EXCEPT !.pc = "wait"]]
         ELSE /\ server' = NoServer
              /\ login' = [login EXCEPT !["browser"] =
                             [NoLogin EXCEPT !.result = "start_raised"]]
  /\ UNCHANGED << dash, host, archive, call, config, client_key, screen, boot >>

\* a POST /callback arrives
Callback(body) ==
  /\ server.up
  /\ server.seen < MaxCallbacks
  /\ server' = [handle_callback(server, body) EXCEPT !.seen = @ + 1,
                                                     !.last = body]
  /\ UNCHANGED << dash, host, archive, call, config, client_key, screen, boot,
                  login >>

\* wait_for_auth after a sleep(1): past the timeout it returns None and
\* the handler ends; else a key that has arrived is returned and
\* authenticate_with_key runs to its get_profile await; else it sleeps on
WaitTick ==
  /\ login["browser"].pc = "wait"
  /\ LET elapsed == login["browser"].elapsed + 1
     IN  IF elapsed >= WaitTimeout
           THEN /\ login' = [login EXCEPT !["browser"] =
                               [NoLogin EXCEPT !.result = "timeout"]]
                /\ server' = NoServer
                /\ client_key' = client_key
         ELSE IF server.api_key # NoApiKey
           THEN /\ login' = [login EXCEPT !["browser"] =
                               [NoLogin EXCEPT !.pc = "profile",
                                               !.api_key = server.api_key]]
                /\ server' = server
                /\ client_key' = server.api_key
         ELSE /\ login' = [login EXCEPT !["browser"].elapsed = elapsed]
              /\ server' = server
              /\ client_key' = client_key
  /\ UNCHANGED << dash, host, archive, call, config, screen, boot >>

\* action_logout of the dashboard: config.clear() and the login screen
Logout ==
  /\ screen = "dashboard"
  /\ config' = NoConfig
  /\ screen' = "login"
  /\ UNCHANGED << dash, host, archive, call, client_key, boot, login, server >>

\* The app starts with no stored key or with one; the dashboard is not
\* followed, only what is pushed.
InitAuth ==
  /\ DashInit([t \in TunnelIds |-> IF t = "t1" THEN 1 ELSE NoPort])
  /\ ~frpcInstalled
  /\ portOpen = [p \in Ports |-> FALSE]
  /\ host = NoHost
  /\ archive = NoArchive
  /\ call = NoCall
  /\ config \in {NoConfig, [api_key |-> KeyB, username |-> "bob"]}
  /\ client_key = NoApiKey
  /\ screen = "none"
  /\ boot = [pc |-> "start", result |-> "-"]
  /\ login = [k \in LoginIds |-> NoLogin]
  /\ server = NoServer

NextAuth ==
  \/ AppMount
  \/ BootProfileDone
  \/ \E typed \in Typed : Authenticate(typed)
  \/ BrowserAuth
  \/ \E body \in Bodies : Callback(body)
  \/ WaitTick
  \/ \E k \in LoginIds : LoginProfileDone(k)
  \/ Logout

SpecAuth == InitAuth /\ [][NextAuth]_vars

\* The dashboard with no user action: it is loaded, then only the timer
\* fires.  The binary is installed, the Remote API answers every list
\* request and no forwarding process exits by itself; the ports open and
\* close at any time.  The event loop runs every handler that is ready,
\* every awaited call returns or raises, and the interval timer keeps
\* firing.
NextLive ==
  \/ MountStart
  \/ TimerTick
  \/ \E k \in TaskIds :
       \/ QuotaDone(k)
       \/ ListAnswered(k)
       \/ AcWake(k)
       \/ ReportDone(k)
  \/ \E p \in Ports : PortFlip(p)

SpecLive ==
  /\ InitIdem
  /\ [][NextLive]_vars
  /\ WF_vars(MountStart)
  /\ WF_vars(TimerTick)
  /\ \A k \in TaskIds :
       /\ WF_vars(QuotaDone(k))
       /\ WF_vars(ListAnswered(k))
       /\ WF_vars(AcWake(k))
       /\ WF_vars(ReportDone(k))

\* The Remote API lists the second tunnel with a local_port beyond the
\* range of port numbers; the user refreshes (R) at any time.
InitProbe == InitWith([t \in TunnelIds |-> IF t = "t1" THEN 1 ELSE BadPort])

NextProbe ==
  \/ MountStart
  \/ RefreshStart
  \/ \E k \in TaskIds :
       \/ QuotaDone(k)
       \/ ListDone(k)
       \/ InstallDone(k)
       \/ AcWake(k)
       \/ ReportDone(k)
  \/ \E p \in Ports : PortFlip(p)
  \/ \E pid \in Pids : ProcExit(pid)

SpecProbe == InitProbe /\ [][NextProbe]_vars

TypeOK ==
  /\ processes \in [TunnelIds -> 0 .. MaxProcs]
  /\ \A t \in TunnelIds :
       configs[t] \in {NoFile} \cup {config_content(Subdomain[t], q) : q \in Ports}
  /\ app \in {"running", "closing", "exited"}

\* ------------------------------------------------------------ properties
\* task k takes a step of its coroutine (the program is still there)
Stepped(k) == tasks'[k] # tasks[k] /\ app' # "exited"

RegNext == [processes |-> processes', procs |-> procs', configs |-> configs']

\* the processes spawned for tunnel t that are running
AliveOf(pr, t) == {p \in Pids : pr[p].tid = t /\ pr[p].st = "alive"}

Range(s) == {s[i] : i \in DOMAIN s}

Count(s, x) == Len(SelectSeq(s, LAMBDA y : y = x))

\* the handlers that run a reconciliation pass
PassHandlers == {"mount", "refresh", "timer"}

\* task k finishes a pass with this step; its locals are those of the
\* unprimed state
PassEnds(k) ==
  /\ Stepped(k)
  /\ tasks[k].h \in PassHandlers
  /\ tasks'[k].pc = "idle"

\* the tunnel a start_tunnel call that task k is suspended in is for
StartTid(k) == IF tasks[k].h = "edit" THEN tasks[k].tid ELSE Order[tasks[k].idx]

StartPort(k) ==
  IF tasks[k].h = "edit" THEN tasks[k].port ELSE tasks[k].items[StartTid(k)]

\* task k is inside start_tunnel, at its sleep
InStart(k) == tasks[k].pc \in {"ac_sleep", "e_sleep"}

\* C1: in every reachable state each tunnel id has at most one running
\* process that the registry spawned, and that process is the one the
\* registry tracks for the id: once a new process has been spawned for an
\* id no earlier one for it is still running.
C1_AtMostOneAlive ==
  \A t \in TunnelIds :
    /\ Cardinality(AliveOf(procs, t)) <= 1
    /\ \A p \in AliveOf(procs, t) : processes[t] = p

\* a start has replaced a running process of the same tunnel by a new one
C1_Witness ==
  /\ tasks["user"].pc = "e_sleep"
  /\ tasks["user"].prev = "connected"
  /\ processes["t1"] = tasks["user"].proc
  /\ AliveOf(procs, "t1") = {tasks["user"].proc}

\* C6: whenever start_tunnel returns successfully for a tunnel id and port,
\* however many starts of that id came before, exactly one process of the
\* id is running, it is the process the registry tracks for the id, and
\* the config file holds the port of this start.
C6_StartIdempotent ==
  [][\A k \in TaskIds :
       (Stepped(k) /\ InStart(k)
          /\ (tasks'[k].pc = "ac_report" \/ tasks'[k].result = "started"))
       => /\ processes'[StartTid(k)] # 0
          /\ AliveOf(procs', StartTid(k)) = {processes'[StartTid(k)]}
          /\ configs'[StartTid(k)]
               = config_content(Subdomain[StartTid(k)], StartPort(k))]_vars

\* a start of a tunnel that was already connected, with the port it was
\* started with before, has returned successfully
C6_Witness ==
  /\ tasks["user"].pc = "list3"
  /\ tasks["user"].result = "started"
  /\ tasks["user"].prev = "connected"
  /\ tasks["user"].port = 1
  /\ configs["t1"] = config_content(Subdomain["t1"], 1)
  /\ Cardinality(AliveOf(procs, "t1")) = 1

C4_Claim ==
  [][\A k \in TaskIds :
       (/\ Stepped(k)
        /\ InStart(k)
        /\ ~Alive(procs, tasks[k].proc)
        /\ processes[StartTid(k)] = tasks[k].proc)
       => /\ tasks'[k].pc # "ac_report" /\ tasks'[k].result = "start_failed"
          /\ processes'[StartTid(k)] = 0
          /\ get_tunnel_status(RegNext, StartTid(k)) = "not_started"]_vars

\* C5 (as claimed): when stop_all_tunnels returns, list_active_tunnels is
\* empty, the registry has no handle and no tunnel id has a config file.
C5_Claim ==
  [][(app = "running" /\ app' = "closing")
       => /\ list_active_tunnels(RegNext) = {}
          /\ \A t \in TunnelIds : processes'[t] = 0 /\ configs'[t] = NoFile]_vars

\* C7: a pass issues a report only for a tunnel that has a local_port in
\* the list the pass walks, and a step of a pass leaves the handle, the
\* config file and the running processes of every tunnel without one as
\* they are.
C7_AbsentPortUntouched ==
  [][\A k \in TaskIds, t \in TunnelIds :
       (/\ Stepped(k)
        /\ PassHandlers \cap {tasks[k].h, tasks'[k].h} # {}
        /\ tasks'[k].items[t] \notin Ports)
       => /\ tasks'[k].sent[t] = << >> \/ tasks'[k].sent[t] = tasks[k].sent[t]
          /\ processes'[t] = processes[t]
          /\ configs'[t] = configs[t]
          /\ AliveOf(procs', t) = AliveOf(procs, t)]_vars

\* auto_connect_tunnels has walked a list with a tunnel that has a port and
\* one that has none: it has dealt with the first and passed over the second
C7_Witness ==
  \E k \in TaskIds :
    /\ tasks[k].pc = "list2"
    /\ tasks[k].idx > Len(Order)
    /\ tasks[k].items["t1"] \in Ports
    /\ tasks[k].sent["t1"] # << >>
    /\ tasks[k].items["t2"] = NoPort
    /\ tasks[k].sent["t2"] = << >>
    /\ get_tunnel_status(Reg, "t2") = "not_started"

\* C8 (as claimed): when the program has exited, no process that the
\* registry spawned is running.
C8_Claim == app = "exited" => \A p \in Pids : procs[p].st # "alive"

\* C9 (as claimed): at most one pass is in flight at any time.
C9_Claim ==
  Cardinality({k \in TaskIds : tasks[k].h \in PassHandlers}) <= 1

\* C10 (as claimed): a pass that ran alone and in which the installation
\* failed ends with a report issued for every tunnel that the dashboard
\* lists with a local_port whose port is closed.
C10_Claim ==
  [][\A k \in TaskIds, t \in TunnelIds :
       (/\ PassEnds(k)
        /\ ~overlap
        /\ tasks[k].pc = "install" \/ tasks[k].result \in InstallFailures
        /\ tunnel_data[t] \in Ports
        /\ ~portOpen[tunnel_data[t]])
       => tasks[k].sent[t] # << >>]_vars

\* the first tunnel after position i of the walk of task k for which the
\* pass has something to do (0 when there is none)
RECURSIVE NextDue(_, _)
NextDue(k, i) ==
  IF i >= Len(Order) THEN 0
  ELSE LET t  == Order[i + 1]
           lp == tasks[k].items[t]
       IN  IF lp \in Ports
              /\ Decide(portOpen[lp], get_tunnel_status(Reg, t)) # "NONE"
             THEN i + 1
             ELSE NextDue(k, i + 1)

\* C11: a start that fails for one tunnel of an auto-connect pass does not
\* end the pass: in the same step the pass goes on to the next tunnel with
\* a local_port that needs something and does it (a start spawns a
\* process for it, a stop or a closed port reports port_down), or, when no
\* tunnel is left, goes on to load the list; and whatever failed in it,
\* the pass of on_mount ends with the timer of the later passes set.
C11_FailureContained ==
  [][\A k \in TaskIds :
       /\ (Stepped(k) /\ tasks[k].pc = "ac_sleep"
              /\ ~Alive(procs, tasks[k].proc))
          => LET j == NextDue(k, tasks[k].idx)
                 t == Order[j]
                 a == Decide(portOpen[tasks[k].items[t]],
                             get_tunnel_status(Reg, t))
             IN  /\ tasks'[k].result = "start_failed"
                 /\ j = 0 => tasks'[k].pc = "list2"
                 /\ j # 0 =>
                      /\ tasks'[k].idx = j
                      /\ a = "START" =>
                           /\ tasks'[k].pc = "ac_sleep"
                           /\ processes'[t] = tasks'[k].proc
                           /\ Alive(procs', tasks'[k].proc)
                      /\ a \in {"STOP", "REPORT_PORT_DOWN"} =>
                           /\ tasks'[k].pc = "ac_report"
                           /\ tasks'[k].sent[t] =
                                Append(tasks[k].sent[t], "port_down")
                      /\ a = "STOP" => AliveOf(procs', t) = {}
       /\ (Stepped(k) /\ tasks[k].h = "mount" /\ tasks'[k].pc = "idle")
          => timerOn']_vars

\* the start of the first tunnel has failed, its process has exited, and
\* the same pass is now inside the start of the second tunnel
C11_Witness ==
  /\ tasks["screen"].h = "mount"
  /\ tasks["screen"].result = "start_failed"
  /\ tasks["screen"].pc = "ac_sleep"
  /\ tasks["screen"].idx = 2
  /\ get_tunnel_status(Reg, "t1") = "disconnected"
  /\ Alive(procs, processes["t2"])

\* what get_tunnel_status answers for t, set against the handle of t
StatusReflects(R, t) ==
  LET s == get_tunnel_status(R, t)
      h == R.processes[t]
  IN  /\ (s = "not_started") = (h = 0)
      /\ (s = "connected") = (h # 0 /\ R.procs[h].st = "alive")
      /\ (s = "disconnected") = (h # 0 /\ R.procs[h].st = "dead")

\* C12: the status of an id is not_started exactly when the registry has
\* no handle for it, connected exactly when the handle's process is
\* running and disconnected exactly when it has exited; and a step that
\* only asks for statuses (a step of the timer's sync pass) leaves the
\* handles, the processes that run and the config files as they were.
C12_StatusReflectsHandle ==
  [][/\ \A t \in TunnelIds : StatusReflects(Reg, t) /\ StatusReflects(RegNext, t)
     /\ \A k \in TaskIds :
          (Stepped(k) /\ (tasks[k].h = "timer" \/ tasks'[k].h = "timer"))
          => /\ processes' = processes
             /\ configs' = configs
             /\ \A t \in TunnelIds : AliveOf(procs', t) = AliveOf(procs, t)]_vars

\* the sync pass has asked for the status of a tunnel whose tracked process
\* has exited and is reporting it as disconnected
C12_Witness ==
  /\ tasks["screen"].h = "timer"
  /\ tasks["screen"].pc = "sy_report"
  /\ tasks["screen"].idx = 1
  /\ tasks["screen"].sent["t1"] = << "disconnected" >>
  /\ processes["t1"] # 0
  /\ procs[processes["t1"]].st = "dead"

\* handle_save is at its stop_tunnel call in this step (the port was
\* removed)
EditStops ==
  /\ Stepped("user")
  /\ tasks["user"].pc = "e_update"
  /\ tasks'["user"].action = "STOP"

\* C13: a stop of an id the registry has no handle for answers false and
\* changes nothing: the handles, the processes and the config files,
\* a file left by an earlier start included, are as before.
C13_StopAbsent ==
  [][/\ \A t \in TunnelIds :
          processes[t] = 0
          => ~stop_tunnel_result(Reg, t) /\ stop_tunnel(Reg, t) = Reg
     /\ (EditStops /\ processes[tasks["user"].tid] = 0)
          => /\ tasks'["user"].result = "not_running"
             /\ processes' = processes
             /\ configs' = configs
             /\ \A t \in TunnelIds : AliveOf(procs', t) = AliveOf(procs, t)]_vars

\* handle_save has stopped a tunnel that had no handle
C13_Witness ==
  /\ tasks["user"].h = "edit"
  /\ tasks["user"].pc = "list3"
  /\ tasks["user"].action = "STOP"
  /\ tasks["user"].result = "not_running"
  /\ processes[tasks["user"].tid] = 0

\* the auto-connect pass of task k stops a tunnel in this step
PassStops(k) ==
  /\ Stepped(k)
  /\ tasks'[k].pc = "ac_report"
  /\ tasks'[k].action = "STOP"

\* C14: a stop of an id the registry has a handle for answers true; after
\* it no process of the id is running, the id has no handle and no config
\* file, and the handles, processes and config files of the other ids are as
\* they were.
C14_StopPresent ==
  [][/\ \A t \in TunnelIds :
          processes[t] # 0
          => LET R == stop_tunnel(Reg, t)
             IN  /\ stop_tunnel_result(Reg, t)
                 /\ R.processes[t] = 0
                 /\ R.configs[t] = NoFile
                 /\ ~Alive(R.procs, processes[t])
                 /\ \A u \in TunnelIds \ {t} :
                      /\ R.processes[u] = processes[u]
                      /\ R.configs[u] = configs[u]
                      /\ AliveOf(R.procs, u) = AliveOf(procs, u)
     /\ \A k \in TaskIds :
          PassStops(k)
          => LET t == Order[tasks'[k].idx]
             IN  /\ processes[t] # 0
                 /\ processes'[t] = 0
                 /\ configs'[t] = NoFile
                 /\ AliveOf(procs', t) = {}
                 /\ \A u \in TunnelIds \ {t} :
                      /\ processes'[u] = processes[u]
                      /\ configs'[u] = configs[u]
                      /\ AliveOf(procs', u) = AliveOf(procs, u)]_vars

\* a refresh pass has stopped the running second tunnel, whose port had closed,
\* while the first tunnel is running: the second has no handle and no
\* file, the first has both
C14_Witness ==
  /\ tasks["user"].pc = "ac_report"
  /\ tasks["user"].action = "STOP"
  /\ tasks["user"].idx = 2
  /\ tasks["user"].prev = "connected"
  /\ processes["t2"] = 0
  /\ configs["t2"] = NoFile
  /\ AliveOf(procs, "t2") = {}
  /\ get_tunnel_status(Reg, "t1") = "connected"
  /\ configs["t1"] # NoFile

\* C15: the list of active tunnels is exactly the set of ids whose status
\* is connected: an id with a handle whose process has exited, and an id
\* without a handle, are not in it.
C15_ActiveAreConnected ==
  /\ list_active_tunnels(Reg)
       = {t \in TunnelIds : get_tunnel_status(Reg, t) = "connected"}
  /\ \A t \in TunnelIds :
       t \in list_active_tunnels(Reg) <=> AliveOf(procs, t) # {}

\* one tunnel is tracked and running, the other is tracked and its process
\* has exited: the list holds the first only
C15_Witness ==
  /\ processes["t1"] # 0
  /\ processes["t2"] # 0
  /\ get_tunnel_status(Reg, "t1") = "disconnected"
  /\ list_active_tunnels(Reg) = {"t2"}

\* the step in which task k comes to ensure_frpc_installed at the head of
\* auto_connect_tunnels
Ensures(k) == Stepped(k) /\ tasks[k].pc = "list1"

\* the pass of task k is in its loop or beyond
InLoop(T) == T.pc \in {"ac_sleep", "ac_report", "list2"}

\* C16: with the binary present ensure_frpc_installed answers true without
\* a download: the pass goes into its loop in the same step, no download
\* is awaited, and the binary is still present (nothing ever removes it).
C16_EnsureIdempotent ==
  [][/\ frpcInstalled => frpcInstalled'
     /\ \A k \in TaskIds :
          (Ensures(k) /\ frpcInstalled)
          => /\ tasks'[k].pc # "install"
             /\ InLoop(tasks'[k])
             /\ tasks'[k].result # "frpc_downloaded"]_vars

\* the dashboard is mounted with its timer set, and a refresh has passed
\* ensure_frpc_installed without a download and is starting a tunnel
C16_Witness ==
  /\ frpcInstalled
  /\ timerOn
  /\ tasks["user"].h = "refresh"
  /\ tasks["user"].result = "frpc_present"
  /\ tasks["user"].pc = "ac_sleep"

\* the download of task k ends with an error in this step
InstallFails(k) ==
  /\ Stepped(k)
  /\ tasks[k].pc = "install"
  /\ tasks'[k].result \in InstallFailures

\* the three failures of the download that the claim names
NamedFailures == {"unsupported_platform", "bad_status", "not_in_archive"}

\* C17: a download that fails is attempted once: the handler gives up its
\* auto-connect pass, does not go back to the download and leaves the
\* registry as it was; when it failed for an unsupported platform, for an
\* answer other than 200 or for an archive without the binary, the binary
\* is not installed by it; and as long as the binary is missing the next
\* pass that comes to ensure_frpc_installed downloads again.
C17_InstallFailure ==
  [][\A k \in TaskIds :
       /\ InstallFails(k)
          => /\ tasks'[k].result \in NamedFailures
                  => frpcInstalled' = frpcInstalled
             /\ tasks'[k].pc # "install"
             /\ ~InLoop(tasks'[k])
             /\ processes' = processes
             /\ configs' = configs
             /\ \A t \in TunnelIds : AliveOf(procs', t) = AliveOf(procs, t)
       /\ (Ensures(k) /\ ~frpcInstalled) => tasks'[k].pc = "install"]_vars

\* the download of a refresh has failed, the binary is still missing, and
\* the refresh has gone on to its sync pass
C17_Witness ==
  /\ ~frpcInstalled
  /\ tasks["user"].h = "refresh"
  /\ tasks["user"].result = "not_in_archive"
  /\ tasks["user"].pc = "sy_report"

\* C18 (as claimed): the port probe never raises to its caller, whatever
\* the port, so that no handler is ever left by an exception of the probe.
C18_Claim ==
  \A k \in TaskIds : tasks[k].result # "probe_raised"

\* the text c is a config text for subdomain sd
WellFormed(c, sd) ==
  /\ Len(c) = 9
  /\ c[1] = << "[common]" >>
  /\ c[2] = << "server_addr", "=", "tunnel.ovream.com" >>
  /\ c[3] = << "server_port", "=", 7000 >>
  /\ c[5] = << "[", sd, "]" >>
  /\ c[6] = << "type", "=", "http" >>
  /\ c[7] = << "local_ip", "=", "127.0.0.1" >>
  /\ Len(c[8]) = 3 /\ c[8][1] = "local_port" /\ c[8][3] \in Ports
  /\ c[9] = << "custom_domains", "=", sd, ".", "tunnel.ovream.com" >>

\* C19: every config file the registry has written names the fixed edge
\* host and port, has a section keyed by the tunnel's subdomain with type
\* http and local_ip 127.0.0.1, a local_port line and the custom domain
\* <subdomain>.tunnel.ovream.com, and is the text the builder gives for
\* the subdomain and the port in it; a start writes the text with the port
\* it was called with, so that a second start with the same subdomain and
\* port writes the same text again.
C19_ConfigText ==
  [][/\ \A t \in TunnelIds :
          configs'[t] # NoFile
          => /\ WellFormed(configs'[t], Subdomain[t])
             /\ configs'[t] = config_content(Subdomain[t], configs'[t][8][3])
     /\ \A k \in TaskIds :
          (Stepped(k) /\ tasks'[k].pc \in {"ac_sleep", "e_sleep"})
          => LET t  == StartTid(k)'
                 lp == StartPort(k)'
             IN  /\ configs'[t][8] = << "local_port", "=", lp >>
                 /\ configs[t] # NoFile /\ configs[t][8][3] = lp
                      => configs'[t] = configs[t]]_vars

\* a tunnel that was running with local_port 1 has been started again
\* after an edit with local_port 2, and its file has the new port
C19_Witness ==
  /\ tasks["user"].pc = "e_sleep"
  /\ tasks["user"].prev = "connected"
  /\ tasks["user"].port = 2
  /\ configs["t1"][8] = << "local_port", "=", 2 >>
  /\ configs["t1"][9] = << "custom_domains", "=", "abc", ".", "tunnel.ovream.com" >>

\* C20 (as claimed): a list request that failed is never shown as an empty
\* tunnel list: the table says "No tunnels yet" only when the Remote API
\* has no tunnel to list, and here it always lists two.
C20_Claim == table # "empty"

\* task k is waiting for the answer to a status report
Reporting(k) == tasks[k].pc \in {"ac_report", "sy_report"}

\* C21: whenever a pass waits for the answer to a status report, what the
\* pass does next is the same for every way the report can end (answered,
\* refused, or failed with an exception): the registry is left as it is by
\* the report, the handler goes on with its loop, nothing is recorded for
\* the user, and the state reached is the one reached after a report that
\* succeeded.
C21_ReportAdvisory ==
  \A k \in TaskIds :
    (Reporting(k) /\ CanSpawn(procs))
    => \A o \in ReportOutcomes :
         LET B == Bundle(tasks[k])
         IN  /\ ReportTurn(B, o).reg = Reg
             /\ ReportTurn(B, o).tbl = table
             /\ ReportTurn(B, o).task.pc \in {"ac_loop", "sy_loop"}
             /\ ReportTurn(B, o).task.result = tasks[k].result
             /\ Run(ReportTurn(B, o)) = Run(ReportTurn(B, "ok"))

\* the report that followed the start of the first tunnel and the
\* port_down report of the second have ended, the pass has gone on past the
\* last tunnel, and the first tunnel is connected
C21_Witness ==
  /\ tasks["screen"].h = "mount"
  /\ tasks["screen"].pc = "list2"
  /\ tasks["screen"].sent["t1"] = << "connected" >>
  /\ tasks["screen"].sent["t2"] = << "port_down" >>
  /\ tasks["screen"].result = "started"
  /\ get_tunnel_status(Reg, "t1") = "connected"

\* the handlers of the four triggers
Triggers == {"mount", "refresh", "edit", "timer"}

\* the handler of task k returns with this step; its locals are those of
\* the unprimed state
HandlerEnds(k) ==
  /\ Stepped(k)
  /\ tasks[k].pc \notin {"idle", "e_update"}
  /\ tasks'[k].pc = "idle"

\* the binary was there for the handler of task k
Provisioned(k) == frpcInstalled /\ tasks[k].result \notin InstallFailures

Statuses == {"connected", "disconnected", "not_started"}

\* the row of the decision table for an observation
TableRow(open, connected) ==
  IF open /\ ~connected THEN "START"
  ELSE IF ~open /\ connected THEN "STOP"
  ELSE IF ~open /\ ~connected THEN "REPORT_PORT_DOWN"
  ELSE "NONE"

\* C23: the action of a step of the auto-connect loop is a total function
\* of (port open, process status): START iff open and not connected, STOP
\* iff closed and connected, REPORT_PORT_DOWN iff closed and not connected,
\* NONE iff open and connected.  A step under way carries the action of
\* the table for what it observed, and a connected tunnel on an open port
\* is passed with no report and its registry entry as it was.
C23_DecisionTable ==
  [][/\ \A pa \in BOOLEAN, st \in Statuses :
          Decide(pa, st) = TableRow(pa, st = "connected")
     /\ \A k \in TaskIds :
          tasks'[k].pc \in {"ac_sleep", "ac_report"}
          => tasks'[k].action =
               TableRow(portOpen'[tasks'[k].items[Order[tasks'[k].idx]]],
                        tasks'[k].prev = "connected")
     /\ \A k \in TaskIds, t \in TunnelIds :
          (/\ Stepped(k)
           /\ tasks'[k].pc \in {"ac_sleep", "ac_report", "list2"}
           /\ ~(tasks[k].pc = "ac_sleep" /\ Order[tasks[k].idx] = t)
           /\ apiPort[t] \in Ports
           /\ portOpen[apiPort[t]]
           /\ get_tunnel_status(Reg, t) = "connected")
          => /\ tasks'[k].sent[t] = tasks[k].sent[t]
             /\ processes'[t] = processes[t]
             /\ configs'[t] = configs[t]
             /\ AliveOf(procs', t) = AliveOf(procs, t)]_vars

\* a refresh has passed the first tunnel, connected on an open port, with
\* no report, and is stopping the second, connected on a closed port
C23_Witness ==
  /\ tasks["user"].h = "refresh"
  /\ tasks["user"].pc = "ac_report"
  /\ tasks["user"].idx = 2
  /\ tasks["user"].action = "STOP"
  /\ tasks["user"].prev = "connected"
  /\ tasks["user"].sent["t1"] = << >>
  /\ get_tunnel_status(Reg, "t1") = "connected"
  /\ portOpen[1] /\ ~portOpen[2]

\* task k is in the STOP branch of tunnel t, its report in flight
Stopping(k, t) ==
  /\ tasks[k].pc = "ac_report"
  /\ tasks[k].action = "STOP"
  /\ Order[tasks[k].idx] = t

\* C24: in the STOP branch the process is stopped before the report is
\* issued: while the report is in flight and when the step of the tunnel
\* ends, the tunnel has no handle and no running process, and the one
\* report the step has issued for it is port_down, never connected.
C24_StopThenReport ==
  [][\A k \in TaskIds, t \in TunnelIds :
       /\ Stopping(k, t)'
           => /\ processes'[t] = 0
              /\ AliveOf(procs', t) = {}
              /\ procs'[tasks'[k].proc].st # "alive"
              /\ tasks'[k].sent[t] = << "port_down" >>
       /\ (Stopping(k, t) /\ Stepped(k))
           => /\ processes'[t] = 0
              /\ AliveOf(procs', t) = {}
              /\ tasks'[k].pc # "idle" => tasks'[k].sent[t] = << "port_down" >>]_vars

\* the dashboard load started the first tunnel; its port has closed and
\* the refresh has stopped it and waits for the port_down report
C24_Witness ==
  /\ Stopping("user", "t1")
  /\ tasks["user"].h = "refresh"
  /\ tasks["user"].prev = "connected"
  /\ tasks["user"].proc # 0
  /\ procs[tasks["user"].proc].st = "dead"
  /\ processes["t1"] = 0
  /\ ~portOpen[1]

\* task k is in the REPORT_PORT_DOWN branch of tunnel t, its report in
\* flight
ReportingDown(k, t) ==
  /\ tasks[k].pc = "ac_report"
  /\ tasks[k].action = "REPORT_PORT_DOWN"
  /\ Order[tasks[k].idx] = t

\* C25: the REPORT_PORT_DOWN branch sends port_down and leaves the
\* registry entry of the tunnel as it was: the step that issues the report
\* and the step that ends with its answer change neither the handle, nor
\* the config file, nor the process of the tunnel, a handle whose process
\* has exited included.
C25_ReportOnly ==
  [][\A k \in TaskIds, t \in TunnelIds :
       /\ ReportingDown(k, t)' => tasks'[k].sent[t] = << "port_down" >>
       /\ (Stepped(k) /\ (ReportingDown(k, t)' \/ ReportingDown(k, t)))
           => /\ processes'[t] = processes[t]
              /\ configs'[t] = configs[t]
              /\ AliveOf(procs', t) = AliveOf(procs, t)
              /\ processes[t] # 0 => procs'[processes[t]] = procs[processes[t]]]_vars

\* the port of the first tunnel is closed and its process has exited; the
\* loop reports port_down and the handle and the config file are there
C25_Witness ==
  /\ ReportingDown("user", "t1")
  /\ tasks["user"].prev = "disconnected"
  /\ processes["t1"] # 0
  /\ procs[processes["t1"]].st = "dead"
  /\ configs["t1"] # NoFile
  /\ ~portOpen[1]

Pos(t) == CHOOSE i \in 1 .. Len(Order) : Order[i] = t

\* the auto-connect loop of a task is at a tunnel or has just ended
AtTunnel(T) == T.pc \in {"ac_sleep", "ac_report"}

\* the registry entry of tunnel t and the reports of task k for it stay
SameFor(k, t) ==
  /\ tasks'[k].sent[t] = tasks[k].sent[t]
  /\ processes'[t] = processes[t]
  /\ configs'[t] = configs[t]
  /\ AliveOf(procs', t) = AliveOf(procs, t)

\* C27: within a pass the tunnels are processed strictly one after
\* another.  The loop never goes back; a step of it touches neither a
\* tunnel that comes after the one it arrives at nor one that came before
\* the one it was at; and every tunnel it has passed is finished: one with
\* a closed port has had its port_down report and has no running process,
\* and in the first pass one with a running process has had its connected
\* report.
C27_OneAtATime ==
  [][\A k \in TaskIds, t \in TunnelIds :
       (Stepped(k) /\ (AtTunnel(tasks'[k]) \/ tasks'[k].pc = "list2"))
       => /\ AtTunnel(tasks[k]) => tasks'[k].idx >= tasks[k].idx
          /\ Pos(t) > tasks'[k].idx => SameFor(k, t)
          /\ (AtTunnel(tasks[k]) /\ Pos(t) < tasks[k].idx) => SameFor(k, t)
          /\ (Pos(t) < tasks'[k].idx /\ tasks'[k].items[t] \in Ports)
              => IF portOpen[tasks'[k].items[t]]
                   THEN (tasks'[k].h = "mount" /\ AliveOf(procs', t) # {})
                        => tasks'[k].sent[t] = << "connected" >>
                   ELSE /\ tasks'[k].sent[t] = << "port_down" >>
                        /\ AliveOf(procs', t) = {}]_vars

\* the dashboard load has started the first tunnel and reported it, and
\* waits for the process of the second; the second has no report yet
C27_Witness ==
  /\ tasks["screen"].h = "mount"
  /\ tasks["screen"].pc = "ac_sleep"
  /\ tasks["screen"].idx = 2
  /\ tasks["screen"].sent["t1"] = << "connected" >>
  /\ tasks["screen"].sent["t2"] = << >>
  /\ AliveOf(procs, "t1") # {}
  /\ AliveOf(procs, "t2") # {}

\* a task is walking a list: at a tunnel of one of the two loops
Walking(T) == T.pc \in {"ac_sleep", "ac_report", "sy_report"}

\* task k begins to walk a list with this step
BeginsWalk(k) ==
  /\ Stepped(k)
  /\ Walking(tasks'[k])
  /\ tasks[k].pc \in {"idle", "list1", "install", "list2"}

LaterPass(k) ==
  /\ Stepped(k)
  /\ tasks[k].h \in {"refresh", "timer"} \/ tasks'[k].h \in {"refresh", "timer"}

\* every listed tunnel is as its port says: running on an open port, not
\* running on a closed one
Settled ==
  \A t \in TunnelIds :
    apiPort[t] \in Ports
    => (get_tunnel_status(Reg, t) = "connected" <=> portOpen[apiPort[t]])

\* C29 (as claimed): with the list, the ports and the liveness of the
\* processes unchanged since the pass before, a pass starts no process,
\* stops none and leaves the registry as it was.
C29_Claim ==
  [][\A k \in TaskIds : LaterPass(k) => RegNext = Reg]_vars

\* C29 (amended): with nothing else changing, a pass that finds every
\* listed tunnel as its port says leaves the registry as it was; a pass
\* stops no running process, and the only handle it replaces is one whose
\* process has exited while its port is open: that tunnel is started
\* again.  Before the dashboard is loaded the registry is empty and every
\* tunnel is not_started.
C29_Amended ==
  [][/\ ~mounted
        => /\ list_active_tunnels(Reg) = {}
           /\ \A t \in TunnelIds :
                /\ processes[t] = 0
                /\ configs[t] = NoFile
                /\ get_tunnel_status(Reg, t) = "not_started"
     /\ \A k \in TaskIds :
          LaterPass(k)
          => /\ Settled => RegNext = Reg
             /\ \A t \in TunnelIds :
                  /\ AliveOf(procs, t) \subseteq AliveOf(procs', t)
                  /\ processes'[t] # processes[t]
                      => /\ portOpen[apiPort[t]]
                         /\ processes[t] # 0
                         /\ procs[processes[t]].st # "alive"
                         /\ AliveOf(procs', t) # {}]_vars

\* both ports are open and both tunnels run after the dashboard load; a
\* refresh has passed both and reloads the list with the registry as it was
C29_Witness ==
  /\ tasks["user"].h = "refresh"
  /\ tasks["user"].pc = "list2"
  /\ tasks["user"].sent = NoReports
  /\ Settled
  /\ portOpen[1] /\ portOpen[2]
  /\ list_active_tunnels(Reg) = TunnelIds

\* the port of tunnel t is open / tunnel t is connected / a report of
\* port_down for tunnel t is in flight
Open(t) == portOpen[apiPort[t]]

Connected(t) == get_tunnel_status(Reg, t) = "connected"

ReportedDown(t) ==
  \E k \in TaskIds :
    /\ Reporting(k)
    /\ Order[tasks[k].idx] = t
    /\ tasks[k].sent[t][Len(tasks[k].sent[t])] = "port_down"

C31_Claim ==
  (\A k \in TaskIds : ~InStart(k))
  => \A t \in TunnelIds : configs[t] # NoFile <=> processes[t] # 0

\* the values the Remote API takes as a connection status
Reportable == {"connected", "disconnected", "port_down"}

\* the last report task record T has issued for tunnel t
LastSent(T, t) == T.sent[t][Len(T.sent[t])]

\* C32: every status sent is connected, disconnected or port_down, and
\* it follows from what the pass observes when it issues the report:
\* connected only with a running process and an open port, port_down only
\* with a closed port, disconnected only with an open port and no running
\* process.
C32_StatusDerived ==
  [][\A k \in TaskIds, t \in TunnelIds :
       /\ Range(tasks'[k].sent[t]) \subseteq Reportable
       /\ (Stepped(k) /\ Len(tasks'[k].sent[t]) > Len(tasks[k].sent[t]))
           => LET v    == LastSent(tasks'[k], t)
                  open == portOpen[tasks'[k].items[t]]
                  live == AliveOf(procs', t) # {}
              IN  /\ v = "connected" => live /\ open
                  /\ v = "port_down" => ~open
                  /\ v = "disconnected" => open /\ ~live]_vars

\* the process of the first tunnel has exited and its port is open: the
\* timer reports disconnected
C32_Witness ==
  /\ tasks["screen"].h = "timer"
  /\ tasks["screen"].pc = "sy_report"
  /\ tasks["screen"].idx = 1
  /\ LastSent(tasks["screen"], "t1") = "disconnected"
  /\ tasks["screen"].prev = "disconnected"
  /\ portOpen[apiPort["t1"]]
  /\ processes["t1"] # 0

\* the machine names of the two architectures
Arm64Names == {<< "a", "r", "m", "6", "4" >>,
               << "a", "a", "r", "c", "h", "6", "4" >>}

Amd64Names == {<< "x", "8", "6", "_", "6", "4" >>, << "a", "m", "d", "6", "4" >>}

\* C33 (as claimed): on darwin, linux and windows an arm64 or aarch64
\* host gets the arm64 archive of its system and an x86_64 or amd64 host
\* the amd64 archive; on any other system the download raises.
C33_Claim ==
  archive.pc # "start"
  => /\ (host.system \in {"darwin", "linux", "windows"}
          /\ host.machine \in Arm64Names)
         => archive.platform = << host.system, "arm64" >>
     /\ (host.system \in {"darwin", "linux", "windows"}
          /\ host.machine \in Amd64Names)
         => archive.platform = << host.system, "amd64" >>
     /\ host.system \notin {"darwin", "linux", "windows"}
         => archive.pc = "raised"

\* the local_port a config text names
ConfigPort(text) == text[8][3]

\* C34 (as claimed): when no handler is in flight, the config file of
\* every tunnel with a running process names the local_port the Remote API
\* holds for the tunnel.
C34_Claim ==
  Quiet
  => \A t \in TunnelIds :
       AliveOf(procs, t) # {}
       => /\ configs[t] # NoFile
          /\ ConfigPort(configs[t]) = apiPort[t]

\* C35 (as claimed): when no handler is in flight, a tunnel that has been
\* deleted at the Remote API has no handle in the registry and no running
\* process.
C35_Claim ==
  Quiet
  => \A t \in TunnelIds :
       apiPort[t] = NoKey => processes[t] = 0 /\ AliveOf(procs, t) = {}

\* handle_save of an emptied port field gets the answer of
\* update_tunnel_port with this step
ClearAnswered ==
  /\ tasks["user"].h = "edit"
  /\ tasks["user"].pc = "e_update"
  /\ tasks["user"].port = NoPort
  /\ Stepped("user")

\* C36 (as claimed): saving an edit that clears the local_port, the update
\* answered with success, leaves the tunnel not_started, with no running
\* process and no config file; when the update fails the registry and
\* the processes are as they were.
C36_Claim ==
  [][ClearAnswered
     => LET t == tasks["user"].tid
        IN  IF tasks'["user"].pc = "list3"
              THEN /\ apiPort'[t] = NoPort
                   /\ get_tunnel_status(RegNext, t) = "not_started"
                   /\ AliveOf(procs', t) = {}
                   /\ configs'[t] = NoFile
              ELSE /\ apiPort' = apiPort
                   /\ processes' = processes
                   /\ configs' = configs
                   /\ \A u \in TunnelIds : AliveOf(procs', u) = AliveOf(procs, u)]_vars

\* start_tunnel is called with this step, with data
CalledWith(data) ==
  /\ call.pc = "idle"
  /\ call'.data = data
  /\ call' # call

\* C37: a start whose tunnel data lacks the id, the subdomain or the
\* remote_port raises the invalid-data error and leaves the handles, the
\* processes and the config files as they were.
C37_InvalidDataNoEffect ==
  [][\A t \in TunnelIds, miss \in SUBSET Fields :
       (miss # {} /\ CalledWith(CallData(t, miss)))
       => /\ call'.err = "invalid_data"
          /\ call'.pc = "idle"
          /\ RegNext = Reg]_vars

\* start_tunnel has raised for the dict of t1 without its subdomain while
\* t1 has a running process and a config file
C37_Witness ==
  /\ call.err = "invalid_data"
  /\ call.data = CallData("t1", {"subdomain"})
  /\ processes["t1"] # 0
  /\ Alive(procs, processes["t1"])
  /\ configs["t1"] # NoFile

\* get_profile of login handler k, asked with api_key, answers with
\* success in this step
Validated(k, api_key) ==
  /\ login[k].pc = "profile"
  /\ login[k].api_key = api_key
  /\ login'[k].pc = "idle"
  /\ login'[k].result \in ProfileOk

\* get_profile of on_mount answers with success in this step
BootValidated ==
  /\ boot.pc = "profile"
  /\ boot'.pc = "done"
  /\ boot'.result \in ProfileOk
  /\ client_key = config.api_key

\* C38: an API key or a username is written to the config only in the
\* step in which the profile request made with that key succeeds; the
\* dashboard is pushed only in such a step, of a login handler or of the
\* startup; and a startup whose stored key fails the profile request
\* clears the config and pushes the login screen.
C38_ValidatedFirst ==
  [][/\ (config'.api_key # config.api_key /\ config'.api_key # NoApiKey)
          => \E k \in LoginIds : Validated(k, config'.api_key)
     /\ (config'.username # config.username /\ config' # NoConfig)
          => \E k \in LoginIds : Validated(k, config'.api_key)
     /\ (screen' = "dashboard" /\ screen # "dashboard")
          => \/ \E k \in LoginIds : Validated(k, config'.api_key)
             \/ BootValidated
     /\ (boot.pc = "profile" /\ boot'.pc = "done"
           /\ boot'.result \notin ProfileOk)
          => config' = NoConfig /\ screen' = "login"]_vars

\* the stored key failed at startup and was cleared, then KeyA was typed,
\* validated and saved, and the dashboard pushed
C38_Witness ==
  /\ boot = [pc |-> "done", result |-> "rejected"]
  /\ login["manual"].result = "ok"
  /\ config = [api_key |-> KeyA, username |-> "alice"]
  /\ screen = "dashboard"

\* a POST /callback is handled in this step
Called == server'.seen = server.seen + 1

\* C39: a callback changes the key of the AuthServer only when its
\* session_id is the server's, and then to the key it carries; a callback
\* with another session_id, or none, is answered with an error and the key
\* stays; wait_for_auth hands over only a key that a callback of the
\* right session brought, and ends with nothing once the timeout is
\* reached.
C39_SessionBound ==
  [][/\ Called
          => /\ server'.last.session_id # server.session_id
                 => /\ server'.response \in {"invalid_session", "error_500"}
                    /\ server'.api_key = server.api_key
             /\ server'.api_key # server.api_key
                 => /\ server'.last.session_id = server.session_id
                    /\ server'.api_key = server'.last.api_key
                    /\ server'.response = "success"
     /\ (login["browser"].pc = "wait" /\ login'["browser"].pc = "profile")
          => /\ login'["browser"].api_key \in server.accepted \ {NoApiKey}
             /\ login'["browser"].api_key = server.api_key
             /\ login["browser"].elapsed + 1 < WaitTimeout
     /\ (login["browser"].pc = "wait" /\ login'["browser"].pc = "idle")
          => /\ login'["browser"].result = "timeout"
             /\ login["browser"].elapsed + 1 >= WaitTimeout
             /\ client_key' = client_key]_vars

\* the server of session s1 has answered a callback of session s2 that
\* carried KeyA with "Invalid session" and holds no key
C39_Witness ==
  /\ server.up
  /\ server.session_id = "s1"
  /\ server.last = [json |-> TRUE, session_id |-> "s2", api_key |-> KeyA]
  /\ server.response = "invalid_session"
  /\ server.api_key = NoApiKey
  /\ login["browser"].pc = "wait"

====
